---- MODULE Spec2Model ----
(***************************************************************************)
(* Permission-aware project / task service layer of the project management *)
(* tool (server/services/projectService.js, server/services/taskService.js *)
(* and the routes that call them), modelled over a relational store.       *)
(***************************************************************************)
EXTENDS Integers, Sequences, FiniteSets, TLC

VARIABLES
    projects,        \* Project rows: id -> record
    projectMembers,  \* ProjectMember rows, keyed by (userId, projectId)
    projectColumns,  \* ProjectColumn rows
    projectTags,     \* ProjectTag rows
    tasks,           \* Task rows: id -> record
    taskWatchers,    \* TaskWatcher rows, keyed by (userId, taskId)
    taskTags,        \* TaskTag rows
    comments,        \* Comment rows: id -> record
    nextId,          \* next fresh id per table (ids are never reused)
    now,             \* the wall clock read by new Date() and by the store
    resp,            \* outcome of the last service call, as seen by its caller
    users,           \* User rows: id -> record
    out,             \* what the last request's route did: its answer, its events
    pending,         \* requests whose handler is suspended at an await
    sockets          \* socket.io: who is connected, in which rooms, and what each got

vars == <<projects, projectMembers, projectColumns, projectTags, tasks,
          taskWatchers, taskTags, comments, nextId, now, resp, users, out,
          pending, sockets>>

store == <<projects, projectMembers, projectColumns, projectTags, tasks,
           taskWatchers, taskTags, comments>>

-----------------------------------------------------------------------------
(* Bounds of the model *)

MaxProjects == 2
MaxTasks == 2
MaxComments == 2
MaxClock == 2
\* createTask calls that may be between their position lookup and their insert
MaxInFlight == 2
\* events sent to socket.io rooms in one behaviour
MaxEmits == 2

-----------------------------------------------------------------------------
(* Values *)

NULL == "null"
\* a nullable DateTime column: empty, or holding one clock reading
NullDate == <<>>
DateOf(t) == <<t>>
Absent == "undefined"
OK == "ok"

Users == {"u1", "u2", "u3"}

EmailOf(u) ==
    CASE u = "u1" -> "u1@x.com"
      [] u = "u2" -> "u2@x.com"
      [] u = "u3" -> "u3@x.com"

\* String.prototype.toLowerCase / toUpperCase on the strings the model uses
ToLowerCase(s) ==
    CASE s = "U2@X.com" -> "u2@x.com"
      [] s = "S" -> "s"
      [] s = "P" -> "p"
      [] OTHER -> s

ToUpperCase(s) ==
    CASE s = "member" -> "MEMBER"
      [] s = "admin" -> "ADMIN"
      [] s = "owner" -> "OWNER"
      [] s = "active" -> "ACTIVE"
      [] OTHER -> s

EmailArgs == {"U2@X.com", "u3@x.com", "nobody@x.com"}
\* Absent: the caller passes no role and the default applies
RoleArgs == {"OWNER", "admin", Absent}

\* Texts are sequences of characters
LowerText(t) == [i \in 1..Len(t) |-> ToLowerCase(t[i])]

\* a nullable text column that holds no value
NoText == <<>>

\* Prisma { contains: needle, mode: 'insensitive' }; a null column never matches
ContainsInsensitive(hay, needle) ==
    /\ hay # NoText
    /\ \E i \in 1..(Len(hay) - Len(needle) + 1) :
          SubSeq(LowerText(hay), i, i + Len(needle) - 1) = LowerText(needle)

NameArgs == {<<"S", "P">>}
DescriptionArgs == {NoText}
SearchArgs == {<<>>, <<"s">>}
StatusFilterArgs == {Absent, "active"}
PageArgs == {1, 2}
LimitArgs == {1, 10}
TagListArgs == {<<>>, <<"Bug">>}

SeqToSet(s) == {s[i] : i \in 1..Len(s)}

-----------------------------------------------------------------------------
(* Error messages thrown by the services *)

ErrProjectNotFound == "Project not found or access denied"
ErrAddPerm == "Insufficient permissions to add members"
ErrRemovePerm == "Insufficient permissions to remove members"
ErrUserNotFound == "User not found"
ErrAlreadyMember == "User is already a member of this project"
ErrCannotRemoveOwner == "Cannot remove project owner"
ErrRecordNotFound == "Record to delete does not exist"
ErrNotMember == "Access denied - not a project member"
ErrInvalidAssignee == "Assignee must be a project member"
ErrTaskNotFound == "Task not found"
ErrEditTaskPerm == "Insufficient permissions to edit this task"
ErrDeleteTaskPerm == "Insufficient permissions to delete this task"
ErrCommentNotFound == "Comment not found"
ErrEditCommentPerm == "You can only edit your own comments"
ErrDeleteCommentPerm == "Insufficient permissions to delete this comment"
ErrUpdateProjectPerm == "Insufficient permissions to update this project"
ErrDeleteProjectPerm == "Only project owner can delete the project"

-----------------------------------------------------------------------------
(* Queries on the membership table *)

MemberRow(projectId, userId) ==
    {m \in projectMembers : m.projectId = projectId /\ m.userId = userId}

\* projectService.isProjectMember
isProjectMember(projectId, userId) == MemberRow(projectId, userId) # {}

\* projectService.getUserRole
getUserRole(projectId, userId) ==
    IF MemberRow(projectId, userId) = {} THEN NULL
    ELSE (CHOOSE m \in MemberRow(projectId, userId) : TRUE).role

\* where: { OR: [ {ownerId: userId}, {members: {some: {userId}}} ] }
OwnerOrMember(projectId, userId) ==
    \/ projects[projectId].ownerId = userId
    \/ isProjectMember(projectId, userId)

\* getProjectById as it would be with separate existence and access checks
GetProjectByIdMsgSplit(id, userId) ==
    IF id \notin DOMAIN projects THEN "Project not found"
    ELSE IF ~OwnerOrMember(id, userId) THEN "Access denied"
    ELSE OK

\* projectService.getProjectById: the message it throws, or OK
GetProjectByIdMsg(id, userId) ==
    IF id \in DOMAIN projects /\ OwnerOrMember(id, userId)
    THEN OK ELSE ErrProjectNotFound

\* columns: { orderBy: { order: 'asc' } }
RECURSIVE OrderByOrderAsc(_)
OrderByOrderAsc(S) ==
    IF S = {} THEN <<>>
    ELSE LET c == CHOOSE x \in S : \A y \in S : x.order <= y.order
         IN <<c>> \o OrderByOrderAsc(S \ {c})

\* the hydrated project value getProjectById returns
HydrateProject(id) ==
    [id |-> id,
     ownerId |-> projects[id].ownerId,
     members |-> {m \in projectMembers : m.projectId = id},
     columns |-> OrderByOrderAsc({c \in projectColumns : c.projectId = id}),
     tags |-> {t \in projectTags : t.projectId = id}]

\* GET /api/projects/:id: transport status for a thrown message
GetProjectRouteStatus(msg) ==
    IF msg = OK THEN 200
    ELSE IF msg = ErrProjectNotFound THEN 404 ELSE 500

\* userMember && (role === 'OWNER' || role === 'ADMIN')
IsEditor(projectId, userId) ==
    getUserRole(projectId, userId) \in {"OWNER", "ADMIN"}

\* a reply that carries no value
NoData == [none |-> TRUE]

\* id is 0 when the call names or yields no row
Reply(op, user, id, msg, data) ==
    [op |-> op, user |-> user, id |-> id, msg |-> msg, data |-> data]

-----------------------------------------------------------------------------
(* Project service *)

\* the default board as it would be if Review were numbered after Done
DefaultColumnsReviewLast ==
    { [name |-> "To Do", order |-> 0, color |-> "#EF4444"],
      [name |-> "In Progress", order |-> 1, color |-> "#F59E0B"],
      [name |-> "Review", order |-> 3, color |-> "#8B5CF6"],
      [name |-> "Done", order |-> 2, color |-> "#10B981"] }

DefaultColumns ==
    { [name |-> "To Do", order |-> 0, color |-> "#EF4444"],
      [name |-> "In Progress", order |-> 1, color |-> "#F59E0B"],
      [name |-> "Review", order |-> 2, color |-> "#8B5CF6"],
      [name |-> "Done", order |-> 3, color |-> "#10B981"] }

\* projectService.createProject: one transaction, four inserts
CreateProject(name, description, tags, ownerId) ==
    LET pid == nextId.project IN
    /\ pid <= MaxProjects
    /\ now < MaxClock
    /\ projects' = (pid :> [name |-> name, description |-> description,
                            status |-> "ACTIVE", ownerId |-> ownerId,
                            updatedAt |-> now]) @@ projects
    /\ projectMembers' = projectMembers \cup
          {[userId |-> ownerId, projectId |-> pid, role |-> "OWNER"]}
    /\ projectColumns' = projectColumns \cup
          {[projectId |-> pid, name |-> c.name, order |-> c.order,
            color |-> c.color] : c \in DefaultColumns}
    /\ projectTags' = projectTags \cup
          {[projectId |-> pid, name |-> t] : t \in SeqToSet(tags)}
    /\ nextId' = [nextId EXCEPT !.project = pid + 1]
    /\ now' = now + 1
       \* the value returned is the row as inserted, before the member insert
    /\ resp' = Reply("createProject", ownerId, pid, OK,
                     [id |-> pid, ownerId |-> ownerId, members |-> {},
                      columns |-> <<>>, tags |-> {}])
    /\ UNCHANGED <<tasks, taskWatchers, taskTags, comments>>

\* the where clause getUserProjects builds
UserProjectsWhere(p, userId, status, search) ==
    /\ IF search # <<>>
       THEN \/ ContainsInsensitive(projects[p].name, search)
            \/ ContainsInsensitive(projects[p].description, search)
       ELSE OwnerOrMember(p, userId)
    /\ status # Absent => projects[p].status = ToUpperCase(status)

\* orderBy: { updatedAt: 'desc' }
RECURSIVE OrderByUpdatedAtDesc(_)
OrderByUpdatedAtDesc(S) ==
    IF S = {} THEN <<>>
    ELSE LET p == CHOOSE x \in S :
                    \A y \in S : projects[y].updatedAt <= projects[x].updatedAt
         IN <<p>> \o OrderByUpdatedAtDesc(S \ {p})

\* skip / take
Page(list, skip, take) ==
    SubSeq(list, skip + 1, IF skip + take < Len(list) THEN skip + take ELSE Len(list))

CeilDiv(a, b) == (a + b - 1) \div b

\* projectService.getUserProjects
GetUserProjectsResult(userId, status, search, page, limit) ==
    LET matching == {p \in DOMAIN projects :
                        UserProjectsWhere(p, userId, status, search)}
        skip == (page - 1) * limit
    IN [projects |-> Page(OrderByUpdatedAtDesc(matching), skip, limit),
        search |-> search,
        pagination |-> [current |-> page,
                        pages |-> CeilDiv(Cardinality(matching), limit),
                        total |-> Cardinality(matching)]]

GetUserProjects(userId, status, search, page, limit) ==
    /\ resp' = Reply("getUserProjects", userId, 0, OK,
                     GetUserProjectsResult(userId, status, search, page, limit))
    /\ UNCHANGED <<store, nextId, now>>

\* projectService.getProjectById behind GET /api/projects/:id
GetProjectById(id, userId) ==
    /\ resp' = Reply("getProjectById", userId, id, GetProjectByIdMsg(id, userId),
                     IF GetProjectByIdMsg(id, userId) = OK
                     THEN HydrateProject(id) ELSE NoData)
    /\ UNCHANGED <<store, nextId, now>>

\* addMember as it would be if the email were looked up as given
AddMemberMsgCaseSensitive(projectId, email, userId) ==
    LET found == {u \in Users : EmailOf(u) = email} IN
    IF GetProjectByIdMsg(projectId, userId) # OK THEN ErrProjectNotFound
    ELSE IF ~IsEditor(projectId, userId) THEN ErrAddPerm
    ELSE IF found = {} THEN ErrUserNotFound
    ELSE IF \E u \in found : isProjectMember(projectId, u) THEN ErrAlreadyMember
    ELSE OK

\* projectService.addMember: the message it throws, or OK
AddMemberMsg(projectId, email, userId) ==
    LET found == {u \in Users : EmailOf(u) = ToLowerCase(email)} IN
    IF GetProjectByIdMsg(projectId, userId) # OK THEN ErrProjectNotFound
    ELSE IF ~IsEditor(projectId, userId) THEN ErrAddPerm
    ELSE IF found = {} THEN ErrUserNotFound
    ELSE IF \E u \in found : isProjectMember(projectId, u) THEN ErrAlreadyMember
    ELSE OK

AddMember(projectId, email, role, userId) ==
    LET msg == AddMemberMsg(projectId, email, userId) IN
    /\ IF msg = OK
       THEN LET u == CHOOSE x \in Users : EmailOf(x) = ToLowerCase(email) IN
            /\ now < MaxClock
            /\ projectMembers' = projectMembers \cup
                  {[userId |-> u, projectId |-> projectId,
                    role |-> ToUpperCase(IF role = Absent THEN "MEMBER" ELSE role)]}
            /\ now' = now + 1
            /\ resp' = Reply("addMember", userId, projectId, OK,
                  [email |-> email, role |-> role,
                   project |->
                     [id |-> projectId,
                      ownerId |-> projects[projectId].ownerId,
                      members |-> {m \in projectMembers' : m.projectId = projectId},
                      columns |-> OrderByOrderAsc(
                                 {c \in projectColumns : c.projectId = projectId}),
                      tags |-> {t \in projectTags : t.projectId = projectId}]])
       ELSE /\ resp' = Reply("addMember", userId, projectId, msg,
                             [email |-> email, role |-> role])
            /\ UNCHANGED <<projectMembers, now>>
    /\ UNCHANGED <<projects, projectColumns, projectTags, tasks, taskWatchers,
                   taskTags, comments, nextId>>

\* removeMember as it would be without the owner guard
RemoveMemberMsgNoOwnerGuard(projectId, memberUserId, userId) ==
    IF GetProjectByIdMsg(projectId, userId) # OK THEN ErrProjectNotFound
    ELSE IF ~IsEditor(projectId, userId) THEN ErrRemovePerm
    ELSE IF ~isProjectMember(projectId, memberUserId) THEN ErrRecordNotFound
    ELSE OK

\* projectService.removeMember: the message it throws, or OK
RemoveMemberMsg(projectId, memberUserId, userId) ==
    IF GetProjectByIdMsg(projectId, userId) # OK THEN ErrProjectNotFound
    ELSE IF ~IsEditor(projectId, userId) THEN ErrRemovePerm
    ELSE IF projects[projectId].ownerId = memberUserId THEN ErrCannotRemoveOwner
    ELSE IF ~isProjectMember(projectId, memberUserId) THEN ErrRecordNotFound
    ELSE OK

RemoveMember(projectId, memberUserId, userId) ==
    LET msg == RemoveMemberMsg(projectId, memberUserId, userId) IN
    /\ IF msg = OK
       THEN /\ now < MaxClock
            /\ projectMembers' = projectMembers \ MemberRow(projectId, memberUserId)
            /\ now' = now + 1
       ELSE UNCHANGED <<projectMembers, now>>
    /\ resp' = Reply("removeMember", userId, projectId, msg,
                     [memberUserId |-> memberUserId])
    /\ UNCHANGED <<projects, projectColumns, projectTags, tasks, taskWatchers,
                   taskTags, comments, nextId>>

-----------------------------------------------------------------------------
(* Task service *)

StatusArgs == {Absent, "Done"}
AssigneeArgs == {Absent, "u2"}
PatchStatusArgs == {Absent, "Done", "In Progress"}
PatchAssigneeArgs == {Absent, "u2"}
ContentArgs == {"hi", "bye"}
TaskTagArgs == {<<"Bug">>}

Patches == [status : PatchStatusArgs, assigneeId : PatchAssigneeArgs]

\* a value that passes a JavaScript truth test: given, and not the empty string
Truthy(x) == x \notin {Absent, ""}

\* status === 'Done' || status === 'Completed'
IsTerminal(status) == status \in {"Done", "Completed"}

\* rows of a function-valued table without one key
Without(table, id) == [x \in DOMAIN table \ {id} |-> table[x]]

\* taskService.getTaskById: the message it throws, or OK
GetTaskByIdMsg(id, userId) ==
    IF id \notin DOMAIN tasks THEN ErrTaskNotFound
    ELSE IF ~isProjectMember(tasks[id].projectId, userId) THEN ErrNotMember
    ELSE OK

\* taskService.createTask: the message it throws, or OK
CreateTaskMsg(projectId, creatorId, assigneeId) ==
    IF ~isProjectMember(projectId, creatorId) THEN ErrNotMember
    ELSE IF assigneeId # Absent /\ ~isProjectMember(projectId, assigneeId)
         THEN ErrInvalidAssignee
    ELSE OK

\* the position as it would be if the lookup ignored the status
NextPositionInProject(projectId, status) ==
    LET all == {t \in DOMAIN tasks : tasks[t].projectId = projectId}
    IN IF all = {} THEN 0
       ELSE tasks[CHOOSE t \in all :
                \A o \in all : tasks[o].position <= tasks[t].position].position + 1

\* findFirst({where: {projectId, status}, orderBy: {position: 'desc'}}) + 1, or 0
NextPosition(projectId, status) ==
    LET lane == {t \in DOMAIN tasks :
                    tasks[t].projectId = projectId /\ tasks[t].status = status}
    IN IF lane = {} THEN 0
       ELSE tasks[CHOOSE t \in lane :
                \A o \in lane : tasks[o].position <= tasks[t].position].position + 1

CreateTask(projectId, creatorId, assigneeId, status, tags) ==
    LET msg == CreateTaskMsg(projectId, creatorId, assigneeId)
        tid == nextId.task
        st == IF status = Absent THEN "To Do" ELSE status
    IN
    /\ IF msg = OK
       THEN /\ tid <= MaxTasks
            /\ now < MaxClock
            /\ tasks' = (tid :> [projectId |-> projectId,
                                 creatorId |-> creatorId,
                                 assigneeId |-> IF assigneeId = Absent THEN NULL
                                                ELSE assigneeId,
                                 status |-> st, completedDate |-> NullDate,
                                 position |-> NextPosition(projectId, st),
                                 createdAt |-> now]) @@ tasks
            /\ taskWatchers' = taskWatchers
                  \cup {[userId |-> creatorId, taskId |-> tid]}
                  \cup (IF assigneeId # Absent /\ assigneeId # creatorId
                        THEN {[userId |-> assigneeId, taskId |-> tid]} ELSE {})
            /\ projectTags' = projectTags \cup
                  {[projectId |-> projectId, name |-> t] : t \in SeqToSet(tags)}
            /\ taskTags' = taskTags \cup
                  {[taskId |-> tid, projectId |-> projectId, name |-> t] :
                      t \in SeqToSet(tags)}
            /\ nextId' = [nextId EXCEPT !.task = tid + 1]
            /\ now' = now + 1
            /\ resp' = Reply("createTask", creatorId, tid, OK,
                             [projectId |-> projectId, assigneeId |-> assigneeId])
       ELSE /\ resp' = Reply("createTask", creatorId, 0, msg,
                             [projectId |-> projectId, assigneeId |-> assigneeId])
            /\ UNCHANGED <<tasks, taskWatchers, projectTags, taskTags, nextId, now>>
    /\ UNCHANGED <<projects, projectMembers, projectColumns, comments>>

\* canEdit as it would be if the assignee were left out
CanEditTaskNoAssignee(id, userId) ==
    \/ tasks[id].creatorId = userId
    \/ getUserRole(tasks[id].projectId, userId) = "OWNER"
    \/ getUserRole(tasks[id].projectId, userId) = "ADMIN"

\* creator, assignee, or OWNER / ADMIN of the task's project
CanEditTask(id, userId) ==
    \/ tasks[id].creatorId = userId
    \/ tasks[id].assigneeId = userId
    \/ getUserRole(tasks[id].projectId, userId) = "OWNER"
    \/ getUserRole(tasks[id].projectId, userId) = "ADMIN"

\* taskService.updateTask: the message it throws, or OK
UpdateTaskMsg(id, userId) ==
    IF GetTaskByIdMsg(id, userId) # OK THEN GetTaskByIdMsg(id, userId)
    ELSE IF ~CanEditTask(id, userId) THEN ErrEditTaskPerm
    ELSE OK

\* the completedDate written by tx.task.update
CompletedDateAfter(old, status) ==
    IF IsTerminal(status) THEN DateOf(now)
    ELSE IF Truthy(status) THEN NullDate
    ELSE old

\* updateTask as it would be if it left the watchers alone
WatchersAfterUpdateNoAdd(id, patch) == taskWatchers

\* the watcher rows after updateTask: the new assignee is added when the
\* assignee changes and no row for them exists
WatchersAfterUpdate(id, patch) ==
    IF patch.assigneeId # Absent /\ patch.assigneeId # tasks[id].assigneeId
    THEN taskWatchers \cup {[userId |-> patch.assigneeId, taskId |-> id]}
    ELSE taskWatchers

UpdateTask(id, patch, userId) ==
    LET msg == UpdateTaskMsg(id, userId) IN
    /\ IF msg = OK
       THEN /\ now < MaxClock
            /\ tasks' = [tasks EXCEPT ![id] =
                  [@ EXCEPT
                     !.status = IF patch.status = Absent THEN @ ELSE patch.status,
                     !.assigneeId = IF patch.assigneeId = Absent THEN @
                                    ELSE patch.assigneeId,
                     !.completedDate = CompletedDateAfter(@, patch.status)]]
            /\ taskWatchers' = WatchersAfterUpdate(id, patch)
            /\ now' = now + 1
       ELSE UNCHANGED <<tasks, taskWatchers, now>>
    /\ resp' = Reply("updateTask", userId, id, msg,
                     IF msg = OK THEN patch ELSE NoData)
    /\ UNCHANGED <<projects, projectMembers, projectColumns, projectTags,
                   taskTags, comments, nextId>>

\* canDelete as it would be if it were copied from canEdit
CanDeleteTaskWithAssignee(id, userId) ==
    \/ tasks[id].creatorId = userId
    \/ tasks[id].assigneeId = userId
    \/ getUserRole(tasks[id].projectId, userId) = "OWNER"
    \/ getUserRole(tasks[id].projectId, userId) = "ADMIN"

\* creator, or OWNER / ADMIN of the task's project
CanDeleteTask(id, userId) ==
    \/ tasks[id].creatorId = userId
    \/ getUserRole(tasks[id].projectId, userId) = "OWNER"
    \/ getUserRole(tasks[id].projectId, userId) = "ADMIN"

\* taskService.deleteTask: the message it throws, or OK
DeleteTaskMsg(id, userId) ==
    IF GetTaskByIdMsg(id, userId) # OK THEN GetTaskByIdMsg(id, userId)
    ELSE IF ~CanDeleteTask(id, userId) THEN ErrDeleteTaskPerm
    ELSE OK

\* rows owned by a task go with it
CommentsAfterTaskDelete(id) ==
    [c \in {x \in DOMAIN comments : comments[x].taskId # id} |-> comments[c]]
WatchersAfterTaskDelete(id) == {w \in taskWatchers : w.taskId # id}
TaskTagsAfterTaskDelete(id) == {t \in taskTags : t.taskId # id}

DeleteTask(id, userId) ==
    LET msg == DeleteTaskMsg(id, userId) IN
    /\ IF msg = OK
       THEN /\ now < MaxClock
            /\ tasks' = Without(tasks, id)
            /\ comments' = CommentsAfterTaskDelete(id)
            /\ taskWatchers' = WatchersAfterTaskDelete(id)
            /\ taskTags' = TaskTagsAfterTaskDelete(id)
            /\ now' = now + 1
       ELSE UNCHANGED <<tasks, comments, taskWatchers, taskTags, now>>
    /\ resp' = Reply("deleteTask", userId, id, msg, NoData)
    /\ UNCHANGED <<projects, projectMembers, projectColumns, projectTags, nextId>>

\* taskService.addComment
AddComment(taskId, content, authorId) ==
    LET msg == GetTaskByIdMsg(taskId, authorId)
        cid == nextId.comment
    IN
    /\ IF msg = OK
       THEN /\ cid <= MaxComments
            /\ now < MaxClock
            /\ comments' = (cid :> [taskId |-> taskId, authorId |-> authorId,
                                    content |-> content, isEdited |-> FALSE,
                                    createdAt |-> now, updatedAt |-> now])
                           @@ comments
            /\ taskWatchers' = taskWatchers \cup
                  {[userId |-> authorId, taskId |-> taskId]}
            /\ nextId' = [nextId EXCEPT !.comment = cid + 1]
            /\ now' = now + 1
            /\ resp' = Reply("addComment", authorId, cid, OK, [taskId |-> taskId])
       ELSE /\ resp' = Reply("addComment", authorId, 0, msg, [taskId |-> taskId])
            /\ UNCHANGED <<comments, taskWatchers, nextId, now>>
    /\ UNCHANGED <<projects, projectMembers, projectColumns, projectTags,
                   tasks, taskTags>>

\* updateComment as it would be if project editors could edit too
UpdateCommentMsgEditors(taskId, commentId, userId) ==
    IF GetTaskByIdMsg(taskId, userId) # OK THEN GetTaskByIdMsg(taskId, userId)
    ELSE IF commentId \notin DOMAIN comments THEN ErrCommentNotFound
    ELSE IF comments[commentId].authorId # userId
            /\ getUserRole(tasks[taskId].projectId, userId) \notin {"OWNER", "ADMIN"}
         THEN ErrEditCommentPerm
    ELSE OK

\* taskService.updateComment: the message it throws, or OK
UpdateCommentMsg(taskId, commentId, userId) ==
    IF GetTaskByIdMsg(taskId, userId) # OK THEN GetTaskByIdMsg(taskId, userId)
    ELSE IF commentId \notin DOMAIN comments THEN ErrCommentNotFound
    ELSE IF comments[commentId].authorId # userId THEN ErrEditCommentPerm
    ELSE OK

UpdateComment(taskId, commentId, content, userId) ==
    LET msg == UpdateCommentMsg(taskId, commentId, userId) IN
    /\ IF msg = OK
       THEN /\ now < MaxClock
            /\ comments' = [comments EXCEPT ![commentId] =
                  [@ EXCEPT !.content = content, !.isEdited = TRUE,
                            !.updatedAt = now]]
            /\ now' = now + 1
       ELSE UNCHANGED <<comments, now>>
    /\ resp' = Reply("updateComment", userId, commentId, msg,
                     [taskId |-> taskId, content |-> content])
    /\ UNCHANGED <<projects, projectMembers, projectColumns, projectTags,
                   tasks, taskWatchers, taskTags, nextId>>

\* author, or OWNER / ADMIN of the project of the task named by taskId
CanDeleteComment(taskId, commentId, userId) ==
    \/ comments[commentId].authorId = userId
    \/ getUserRole(tasks[taskId].projectId, userId) = "OWNER"
    \/ getUserRole(tasks[taskId].projectId, userId) = "ADMIN"

\* taskService.deleteComment: the message it throws, or OK
DeleteCommentMsg(taskId, commentId, userId) ==
    IF GetTaskByIdMsg(taskId, userId) # OK THEN GetTaskByIdMsg(taskId, userId)
    ELSE IF commentId \notin DOMAIN comments THEN ErrCommentNotFound
    ELSE IF ~CanDeleteComment(taskId, commentId, userId) THEN ErrDeleteCommentPerm
    ELSE OK

DeleteComment(taskId, commentId, userId) ==
    LET msg == DeleteCommentMsg(taskId, commentId, userId) IN
    /\ IF msg = OK
       THEN /\ now < MaxClock
            /\ comments' = Without(comments, commentId)
            /\ now' = now + 1
       ELSE UNCHANGED <<comments, now>>
    /\ resp' = Reply("deleteComment", userId, commentId, msg,
                     [taskId |-> taskId])
    /\ UNCHANGED <<projects, projectMembers, projectColumns, projectTags,
                   tasks, taskWatchers, taskTags, nextId>>

-----------------------------------------------------------------------------
(* Project update and delete, task listing *)

NamePatchArgs == {Absent, <<"N">>}
ColumnPatchArgs ==
    {Absent, << [name |-> "Backlog", order |-> 0, color |-> "#000000"] >>}
TagPatchArgs == {Absent, <<>>, <<"Ux">>}

\* a request body renames the project, or clears its tags, or replaces its
\* columns, with or without new tags
ProjectPatches ==
    {p \in [name : NamePatchArgs, columns : ColumnPatchArgs, tags : TagPatchArgs] :
        IF p.name # Absent THEN p.columns = Absent /\ p.tags = Absent
        ELSE (p.columns = Absent) = (p.tags # Absent /\ Len(p.tags) = 0)}

\* updateProject as it would be if it only required a membership row
UpdateProjectMsgAnyMember(id, userId) ==
    IF GetProjectByIdMsg(id, userId) # OK THEN ErrProjectNotFound
    ELSE IF ~isProjectMember(id, userId) THEN ErrUpdateProjectPerm
    ELSE OK

\* projectService.updateProject: the message it throws, or OK
UpdateProjectMsg(id, userId) ==
    IF GetProjectByIdMsg(id, userId) # OK THEN ErrProjectNotFound
    ELSE IF ~IsEditor(id, userId) THEN ErrUpdateProjectPerm
    ELSE OK

\* rows written by tx.projectColumn.createMany / tx.projectTag.createMany
ColumnRows(id, columns) ==
    {[projectId |-> id, name |-> columns[i].name, order |-> columns[i].order,
      color |-> columns[i].color] : i \in 1..Len(columns)}
TagRows(id, tags) == {[projectId |-> id, name |-> t] : t \in SeqToSet(tags)}

\* projectService.updateProject: one transaction; the value returned is the
\* one read by tx.project.update, before the columns and tags are replaced
\* the column rows as they would be if the supplied columns were merged in
ColumnsAfterUpdateMerged(id, patch) ==
    IF patch.columns = Absent THEN projectColumns
    ELSE projectColumns \cup ColumnRows(id, patch.columns)

\* if (columns): deleteMany({projectId: id}), then createMany
ColumnsAfterUpdate(id, patch) ==
    IF patch.columns = Absent THEN projectColumns
    ELSE {c \in projectColumns : c.projectId # id}
            \cup ColumnRows(id, patch.columns)

UpdateProject(id, patch, userId) ==
    LET msg == UpdateProjectMsg(id, userId) IN
    /\ IF msg = OK
       THEN /\ now < MaxClock
            /\ projects' = [projects EXCEPT ![id] =
                  [@ EXCEPT !.name = IF patch.name = Absent THEN @ ELSE patch.name,
                            !.updatedAt = now]]
            /\ projectColumns' = ColumnsAfterUpdate(id, patch)
            /\ projectTags' =
                  IF patch.tags = Absent THEN projectTags
                  ELSE {t \in projectTags : t.projectId # id}
                          \cup TagRows(id, patch.tags)
            /\ now' = now + 1
            /\ resp' = Reply("updateProject", userId, id, OK, HydrateProject(id))
       ELSE /\ resp' = Reply("updateProject", userId, id, msg, NoData)
            /\ UNCHANGED <<projects, projectColumns, projectTags, now>>
    /\ UNCHANGED <<projectMembers, tasks, taskWatchers, taskTags, comments,
                   nextId>>

\* deleteProject as it would be if any editor could delete
DeleteProjectMsgEditors(id, userId) ==
    IF GetProjectByIdMsg(id, userId) # OK THEN ErrProjectNotFound
    ELSE IF ~IsEditor(id, userId) THEN ErrDeleteProjectPerm
    ELSE OK

\* projectService.deleteProject: the message it throws, or OK
DeleteProjectMsg(id, userId) ==
    IF GetProjectByIdMsg(id, userId) # OK THEN ErrProjectNotFound
    ELSE IF projects[id].ownerId # userId THEN ErrDeleteProjectPerm
    ELSE OK

\* rows owned by a project go with it, and with them the rows its tasks own
TasksOfProject(id) == {t \in DOMAIN tasks : tasks[t].projectId = id}
TasksAfterProjectDelete(id) ==
    [t \in DOMAIN tasks \ TasksOfProject(id) |-> tasks[t]]
CommentsAfterProjectDelete(id) ==
    [c \in {x \in DOMAIN comments : comments[x].taskId \notin TasksOfProject(id)}
        |-> comments[c]]
WatchersAfterProjectDelete(id) ==
    {w \in taskWatchers : w.taskId \notin TasksOfProject(id)}
TaskTagsAfterProjectDelete(id) ==
    {t \in taskTags : t.taskId \notin TasksOfProject(id)}

DeleteProject(id, userId) ==
    LET msg == DeleteProjectMsg(id, userId) IN
    /\ IF msg = OK
       THEN /\ now < MaxClock
            /\ projects' = Without(projects, id)
            /\ projectMembers' = {m \in projectMembers : m.projectId # id}
            /\ projectColumns' = {c \in projectColumns : c.projectId # id}
            /\ projectTags' = {t \in projectTags : t.projectId # id}
            /\ tasks' = TasksAfterProjectDelete(id)
            /\ comments' = CommentsAfterProjectDelete(id)
            /\ taskWatchers' = WatchersAfterProjectDelete(id)
            /\ taskTags' = TaskTagsAfterProjectDelete(id)
            /\ now' = now + 1
       ELSE UNCHANGED <<store, now>>
    /\ resp' = Reply("deleteProject", userId, id, msg, NoData)
    /\ UNCHANGED nextId

\* orderBy: [{ position: 'asc' }, { createdAt: 'desc' }]
\* the list order as it would be if equal positions went oldest first
TaskBeforeOldestFirst(a, b) ==
    \/ tasks[a].position < tasks[b].position
    \/ tasks[a].position = tasks[b].position
          /\ tasks[a].createdAt <= tasks[b].createdAt

\* orderBy: [{ position: 'asc' }, { createdAt: 'desc' }]
TaskBefore(a, b) ==
    \/ tasks[a].position < tasks[b].position
    \/ tasks[a].position = tasks[b].position
          /\ tasks[a].createdAt >= tasks[b].createdAt

RECURSIVE OrderTasks(_)
OrderTasks(S) ==
    IF S = {} THEN <<>>
    ELSE LET t == CHOOSE x \in S : \A y \in S : TaskBefore(x, y)
         IN <<t>> \o OrderTasks(S \ {t})

\* comments: { orderBy: { createdAt: 'asc' } }
RECURSIVE OrderCommentsAsc(_)
OrderCommentsAsc(S) ==
    IF S = {} THEN <<>>
    ELSE LET c == CHOOSE x \in S :
                    \A y \in S : comments[x].createdAt <= comments[y].createdAt
         IN <<c>> \o OrderCommentsAsc(S \ {c})

\* comments: { orderBy: { createdAt: 'desc' } }
RECURSIVE OrderCommentsDesc(_)
OrderCommentsDesc(S) ==
    IF S = {} THEN <<>>
    ELSE LET c == CHOOSE x \in S :
                    \A y \in S : comments[y].createdAt <= comments[x].createdAt
         IN <<c>> \o OrderCommentsDesc(S \ {c})

CommentsOfTask(t) == {c \in DOMAIN comments : comments[c].taskId = t}

\* a comment as a read returns it
CommentValue(c) ==
    [id |-> c, authorId |-> comments[c].authorId,
     content |-> comments[c].content, isEdited |-> comments[c].isEdited]

CommentValues(list) == [i \in 1..Len(list) |-> CommentValue(list[i])]

\* taskService.getProjectTasks
GetProjectTasks(projectId, userId, status) ==
    LET msg == IF isProjectMember(projectId, userId) THEN OK ELSE ErrNotMember
        matching == {t \in DOMAIN tasks :
                        /\ tasks[t].projectId = projectId
                        /\ status # Absent => tasks[t].status = status}
    IN
    /\ resp' = Reply("getProjectTasks", userId, projectId, msg,
                     IF msg = OK
                     THEN [tasks |-> OrderTasks(matching),
                           comments |-> [t \in matching |->
                              CommentValues(OrderCommentsDesc(CommentsOfTask(t)))]]
                     ELSE NoData)
    /\ UNCHANGED <<store, nextId, now>>

\* getTaskById as it would be if reading a task made the reader watch it
GetTaskByIdAndWatch(id, userId) ==
    LET msg == GetTaskByIdMsg(id, userId) IN
    /\ resp' = Reply("getTaskById", userId, id, msg,
                     IF msg = OK
                     THEN [task |-> tasks[id],
                           comments |->
                              CommentValues(OrderCommentsAsc(CommentsOfTask(id))),
                           watchers |-> {w.userId : w \in
                              {x \in taskWatchers : x.taskId = id}}]
                     ELSE NoData)
    /\ taskWatchers' = IF msg = OK
                       THEN taskWatchers \cup {[userId |-> userId, taskId |-> id]}
                       ELSE taskWatchers
    /\ UNCHANGED <<projects, projectMembers, projectColumns, projectTags, tasks,
                   taskTags, comments, nextId, now>>

\* taskService.getTaskById behind GET /api/tasks/:id
GetTaskById(id, userId) ==
    LET msg == GetTaskByIdMsg(id, userId) IN
    /\ resp' = Reply("getTaskById", userId, id, msg,
                     IF msg = OK
                     THEN [task |-> tasks[id],
                           comments |->
                              CommentValues(OrderCommentsAsc(CommentsOfTask(id))),
                           watchers |-> {w.userId : w \in
                              {x \in taskWatchers : x.taskId = id}}]
                     ELSE NoData)
    /\ UNCHANGED <<store, nextId, now>>

-----------------------------------------------------------------------------
(* Multi-row mutations whose k-th write is refused by the store *)

ErrWriteFailed == "write failed"

\* which client each write of the operation is issued on: TRUE for the
\* transaction client tx, FALSE for the global client prisma
CreateProjectViaTx == <<TRUE, TRUE, TRUE, TRUE>>
CreateTaskViaTxWatchersOutside == <<TRUE, FALSE, FALSE, TRUE>>
CreateTaskViaTx == <<TRUE, TRUE, TRUE, TRUE>>
UpdateProjectViaTx == <<TRUE, TRUE, TRUE, TRUE, TRUE>>

\* prisma.$transaction(async (tx) => ...): when write failAt throws, the
\* writes made before it on tx are rolled back; one made on the global
\* client was committed on its own and stays
Visible(viaTx, failAt, i) == i < failAt /\ ~viaTx[i]

\* createProject: 1 project, 2 owner membership, 3 columns, 4 tags
CreateProjectAborted(name, description, tags, ownerId, failAt) ==
    LET pid == nextId.project
        V(i) == Visible(CreateProjectViaTx, failAt, i)
    IN
    /\ pid <= MaxProjects
    /\ failAt = 4 => tags # <<>>
    /\ projects' = IF V(1)
                   THEN (pid :> [name |-> name, description |-> description,
                                 status |-> "ACTIVE", ownerId |-> ownerId,
                                 updatedAt |-> now]) @@ projects
                   ELSE projects
    /\ projectMembers' = IF V(2)
                         THEN projectMembers \cup
                                {[userId |-> ownerId, projectId |-> pid,
                                  role |-> "OWNER"]}
                         ELSE projectMembers
    /\ projectColumns' = IF V(3)
                         THEN projectColumns \cup
                                {[projectId |-> pid, name |-> c.name,
                                  order |-> c.order, color |-> c.color] :
                                    c \in DefaultColumns}
                         ELSE projectColumns
    /\ projectTags' = projectTags
    /\ nextId' = IF V(1) THEN [nextId EXCEPT !.project = pid + 1] ELSE nextId
    /\ resp' = Reply("createProject", ownerId, 0, ErrWriteFailed,
                     [failAt |-> failAt])
    /\ UNCHANGED <<tasks, taskWatchers, taskTags, comments, now>>

\* createTask: 1 task, 2 creator watcher, 3 assignee watcher, 4 tags
CreateTaskAborted(projectId, creatorId, assigneeId, status, tags, failAt) ==
    LET tid == nextId.task
        st == IF status = Absent THEN "To Do" ELSE status
        V(i) == Visible(CreateTaskViaTx, failAt, i)
    IN
    /\ CreateTaskMsg(projectId, creatorId, assigneeId) = OK
    /\ tid <= MaxTasks
    /\ failAt = 3 => (assigneeId # Absent /\ assigneeId # creatorId)
    /\ failAt = 4 => tags # <<>>
    /\ tasks' = IF V(1)
                THEN (tid :> [projectId |-> projectId, creatorId |-> creatorId,
                              assigneeId |-> IF assigneeId = Absent THEN NULL
                                             ELSE assigneeId,
                              status |-> st, completedDate |-> NullDate,
                              position |-> NextPosition(projectId, st),
                              createdAt |-> now]) @@ tasks
                ELSE tasks
    /\ taskWatchers' = taskWatchers
          \cup (IF V(2) THEN {[userId |-> creatorId, taskId |-> tid]} ELSE {})
          \cup (IF V(3) /\ assigneeId # Absent /\ assigneeId # creatorId
                THEN {[userId |-> assigneeId, taskId |-> tid]} ELSE {})
    /\ nextId' = IF V(1) \/ V(2) \/ V(3)
                 THEN [nextId EXCEPT !.task = tid + 1] ELSE nextId
    /\ resp' = Reply("createTask", creatorId, 0, ErrWriteFailed,
                     [failAt |-> failAt])
    /\ UNCHANGED <<projects, projectMembers, projectColumns, projectTags,
                   taskTags, comments, now>>

\* updateProject: 1 project, 2 columns deleteMany, 3 columns createMany,
\* 4 tags deleteMany, 5 tags createMany
UpdateProjectAborted(id, patch, userId, failAt) ==
    LET V(i) == Visible(UpdateProjectViaTx, failAt, i) IN
    /\ UpdateProjectMsg(id, userId) = OK
    /\ failAt \in {2, 3} => patch.columns # Absent
    /\ failAt = 4 => patch.tags # Absent
    /\ failAt = 5 => (patch.tags # Absent /\ patch.tags # <<>>)
    /\ projects' = IF V(1) /\ patch.name # Absent
                   THEN [projects EXCEPT ![id].name = patch.name]
                   ELSE projects
    /\ projectColumns' =
          (IF V(2) /\ patch.columns # Absent
           THEN {c \in projectColumns : c.projectId # id} ELSE projectColumns)
          \cup (IF V(3) /\ patch.columns # Absent
                THEN ColumnRows(id, patch.columns) ELSE {})
    /\ projectTags' =
          IF V(4) /\ patch.tags # Absent
          THEN {t \in projectTags : t.projectId # id} ELSE projectTags
    /\ resp' = Reply("updateProject", userId, id, ErrWriteFailed,
                     [failAt |-> failAt])
    /\ UNCHANGED <<projectMembers, tasks, taskWatchers, taskTags, comments,
                   nextId, now>>

-----------------------------------------------------------------------------
(* Routes: what a handler does around its service call *)

\* every seeded account is active
AllActive == [u \in Users |-> [isActive |-> TRUE]]

\* req.io.emit reaches every socket; req.io.to(`project-${id}`) one room
Everyone == 0
RoomOf(projectId) == projectId

Event(kind, room, by) == [kind |-> kind, room |-> room, by |-> by]

\* no request answered yet
Quiet == [ok |-> TRUE, events |-> <<>>]

\* await service; emit; res.json({success: true}) -- or the catch block
Served(event) ==
    /\ out' = [ok |-> resp'.msg = OK,
               events |-> IF resp'.msg = OK THEN <<event>> ELSE <<>>]
    /\ UNCHANGED <<users, pending, sockets>>

\* a read route: no event
Answered ==
    /\ out' = [ok |-> resp'.msg = OK, events |-> <<>>]
    /\ UNCHANGED <<users, pending, sockets>>

-----------------------------------------------------------------------------
(* socket.io: the connection handlers of server/index.js *)

\* the sockets a client may open, one per browser session
Sessions == {"s1", "s2"}

\* nobody connected, nothing emitted
NoSockets == [connected |-> {},
              rooms |-> [s \in Sessions |-> {}],
              inbox |-> [s \in Sessions |-> <<>>],
              emitted |-> <<>>]

\* the sockets an emit reaches: io.emit reaches every connected socket,
\* io.to(room) the sockets in the room, socket.to(room) those but the sender
ReceiversAllConnected(room, except) == sockets.connected \ except

Receivers(room, except) ==
    IF room = Everyone THEN sockets.connected \ except
    ELSE {s \in sockets.connected : room \in sockets.rooms[s]} \ except

\* .emit(kind, payload): one copy to each receiver; the events are numbered
\* in the order they were emitted
Emit(event, except) ==
    /\ Len(sockets.emitted) < MaxEmits
    /\ sockets' = [sockets EXCEPT
                      !.emitted = Append(@, event),
                      !.inbox = [s \in Sessions |->
                                    IF s \in Receivers(event.room, except)
                                    THEN Append(@[s], Len(sockets.emitted) + 1)
                                    ELSE @[s]]]

\* io.on('connection'): a socket in no project room
Connect(s) ==
    /\ s \notin sockets.connected
    /\ sockets' = [sockets EXCEPT !.connected = @ \cup {s}]
    /\ UNCHANGED <<store, nextId, now, resp, users, out, pending>>

\* socket.on('join-project')
JoinProject(s, projectId) ==
    /\ s \in sockets.connected
    /\ sockets' = [sockets EXCEPT !.rooms[s] = @ \cup {RoomOf(projectId)}]
    /\ UNCHANGED <<store, nextId, now, resp, users, out, pending>>

\* socket.on('leave-project')
LeaveProject(s, projectId) ==
    /\ s \in sockets.connected
    /\ sockets' = [sockets EXCEPT !.rooms[s] = @ \ {RoomOf(projectId)}]
    /\ UNCHANGED <<store, nextId, now, resp, users, out, pending>>

\* socket.on('disconnect'): socket.io has taken the socket out of its rooms
Disconnect(s) ==
    /\ s \in sockets.connected
    /\ sockets' = [sockets EXCEPT !.connected = @ \ {s}, !.rooms[s] = {}]
    /\ UNCHANGED <<store, nextId, now, resp, users, out, pending>>

\* socket.on('task-updated' | 'comment-added' | 'project-updated'): the
\* payload goes to the room it names, to every socket there but the sender
RelayKinds == {"task-updated", "comment-added", "project-updated"}

Relay(s, kind, projectId) ==
    /\ s \in sockets.connected
    /\ Emit(Event(kind, RoomOf(projectId), s), {s})
    /\ UNCHANGED <<store, nextId, now, resp, users, out, pending>>

\* a route that emits to the connected sockets: await service;
\* req.io.to(room).emit; res.json -- or the catch block
ServedLive(event) ==
    /\ out' = [ok |-> resp'.msg = OK,
               events |-> IF resp'.msg = OK THEN <<event>> ELSE <<>>]
    /\ IF resp'.msg = OK THEN Emit(event, {}) ELSE UNCHANGED sockets
    /\ UNCHANGED <<users, pending>>

-----------------------------------------------------------------------------
Init ==
    /\ projects = <<>>
    /\ projectMembers = {}
    /\ projectColumns = {}
    /\ projectTags = {}
    /\ tasks = <<>>
    /\ taskWatchers = {}
    /\ taskTags = {}
    /\ comments = <<>>
    /\ nextId = [project |-> 1, task |-> 1, comment |-> 1]
    /\ now = 0
    /\ resp = Reply("none", NULL, 0, OK, NoData)
    /\ users = AllActive
    /\ out = Quiet
    /\ pending = {}
    /\ sockets = NoSockets

ProjectIds == 1..MaxProjects

DoCreateProject ==
    \E name \in NameArgs, d \in DescriptionArgs, tags \in TagListArgs, u \in Users :
        /\ CreateProject(name, d, tags, u)
        /\ Served(Event("project-created", Everyone, u))

DoGetUserProjects ==
    \E u \in Users, st \in StatusFilterArgs, s \in SearchArgs,
       pg \in PageArgs, l \in LimitArgs :
        GetUserProjects(u, st, s, pg, l) /\ Answered

DoGetProjectById ==
    \E id \in ProjectIds, u \in Users : GetProjectById(id, u) /\ Answered

DoAddMember ==
    \E id \in ProjectIds, e \in EmailArgs, r \in RoleArgs, u \in Users :
        /\ AddMember(id, e, r, u)
        /\ Served(Event("member-added", RoomOf(id), u))

DoRemoveMember ==
    \E id \in ProjectIds, m \in Users, u \in Users :
        /\ RemoveMember(id, m, u)
        /\ Served(Event("member-removed", RoomOf(id), u))

NextProjects ==
    \/ DoCreateProject
    \/ DoGetUserProjects
    \/ DoGetProjectById
    \/ DoAddMember
    \/ DoRemoveMember

SpecProjects == Init /\ [][NextProjects]_vars

\* every id handed out so far, and one that was never handed out
TaskIds == 1..nextId.task
CommentIds == 1..nextId.comment

DoCreateTask ==
    \E p \in ProjectIds, u \in Users, a \in AssigneeArgs, st \in StatusArgs,
       tags \in TaskTagArgs :
        /\ CreateTask(p, u, a, st, tags)
        /\ Served(Event("task-created", RoomOf(p), u))

\* the room is that of the task as returned by the update
DoUpdateTask ==
    \E t \in TaskIds, patch \in Patches, u \in Users :
        /\ UpdateTask(t, patch, u)
        /\ Served(Event("task-updated", RoomOf(tasks'[t].projectId), u))

\* the room is that of the task as read before the delete
DoDeleteTask ==
    \E t \in TaskIds, u \in Users :
        /\ DeleteTask(t, u)
        /\ Served(Event("task-deleted", RoomOf(tasks[t].projectId), u))

\* the comment routes take the room from the task named in the path
DoAddComment ==
    \E t \in TaskIds, c \in ContentArgs, u \in Users :
        /\ AddComment(t, c, u)
        /\ Served(Event("comment-added", RoomOf(tasks[t].projectId), u))

DoUpdateComment ==
    \E t \in TaskIds, c \in CommentIds, txt \in ContentArgs, u \in Users :
        /\ UpdateComment(t, c, txt, u)
        /\ Served(Event("comment-updated", RoomOf(tasks[t].projectId), u))

DoDeleteComment ==
    \E t \in TaskIds, c \in CommentIds, u \in Users :
        /\ DeleteComment(t, c, u)
        /\ Served(Event("comment-deleted", RoomOf(tasks[t].projectId), u))

DefaultColumnRows(pid) ==
    {[projectId |-> pid, name |-> c.name, order |-> c.order, color |-> c.color] :
        c \in DefaultColumns}

\* A store in which u1 has created project 1 and added u2 as MEMBER and u3 as
\* ADMIN, and u3 has created project 2; the clock has reached 0.
InitTasks ==
    /\ projects = (1 :> [name |-> <<"S", "P">>, description |-> NoText,
                         status |-> "ACTIVE", ownerId |-> "u1", updatedAt |-> -4])
               @@ (2 :> [name |-> <<"S", "P">>, description |-> NoText,
                         status |-> "ACTIVE", ownerId |-> "u3", updatedAt |-> -1])
    /\ projectMembers = {[userId |-> "u1", projectId |-> 1, role |-> "OWNER"],
                         [userId |-> "u2", projectId |-> 1, role |-> "MEMBER"],
                         [userId |-> "u3", projectId |-> 1, role |-> "ADMIN"],
                         [userId |-> "u3", projectId |-> 2, role |-> "OWNER"]}
    /\ projectColumns = DefaultColumnRows(1) \cup DefaultColumnRows(2)
    /\ projectTags = {}
    /\ tasks = <<>>
    /\ taskWatchers = {}
    /\ taskTags = {}
    /\ comments = <<>>
    /\ nextId = [project |-> 3, task |-> 1, comment |-> 1]
    /\ now = 0
    /\ resp = Reply("none", NULL, 0, OK, NoData)
    /\ users = AllActive
    /\ out = Quiet
    /\ pending = {}
    /\ sockets = NoSockets

\* POST /api/tasks/project/:projectId with status 'Done' in the body
DoCreateTaskDone ==
    \E p \in ProjectIds, u \in Users, a \in AssigneeArgs, tags \in TaskTagArgs :
        /\ CreateTask(p, u, a, "Done", tags)
        /\ Served(Event("task-created", RoomOf(p), u))

NextTasks ==
    \/ DoCreateTaskDone
    \/ DoUpdateTask
    \/ DoDeleteTask
    \/ DoRemoveMember

SpecTasks == InitTasks /\ [][NextTasks]_vars

\* A store in which u1 has created project 1 and added u2 as MEMBER, u3 has
\* created project 2, u2 has created task 1 in project 1 and u3 task 2 in
\* project 2; the clock has reached 0.
InitComments ==
    /\ projects = (1 :> [name |-> <<"S", "P">>, description |-> NoText,
                         status |-> "ACTIVE", ownerId |-> "u1", updatedAt |-> -5])
               @@ (2 :> [name |-> <<"S", "P">>, description |-> NoText,
                         status |-> "ACTIVE", ownerId |-> "u3", updatedAt |-> -3])
    /\ projectMembers = {[userId |-> "u1", projectId |-> 1, role |-> "OWNER"],
                         [userId |-> "u2", projectId |-> 1, role |-> "MEMBER"],
                         [userId |-> "u3", projectId |-> 2, role |-> "OWNER"]}
    /\ projectColumns = DefaultColumnRows(1) \cup DefaultColumnRows(2)
    /\ projectTags = {}
    /\ tasks = (1 :> [projectId |-> 1, creatorId |-> "u2",
                      assigneeId |-> NULL, status |-> "To Do",
                       completedDate |-> NullDate, position |-> 0, createdAt |-> -2])
            @@ (2 :> [projectId |-> 2, creatorId |-> "u3",
                      assigneeId |-> NULL, status |-> "To Do",
                       completedDate |-> NullDate, position |-> 0, createdAt |-> -1])
    /\ taskWatchers = {[userId |-> "u2", taskId |-> 1],
                       [userId |-> "u3", taskId |-> 2]}
    /\ taskTags = {}
    /\ comments = <<>>
    /\ nextId = [project |-> 3, task |-> 3, comment |-> 1]
    /\ now = 0
    /\ resp = Reply("none", NULL, 0, OK, NoData)
    /\ users = AllActive
    /\ out = Quiet
    /\ pending = {}
    /\ sockets = NoSockets

ListStatusArgs == {Absent, "Done"}

DoUpdateProject ==
    \E id \in ProjectIds, patch \in ProjectPatches, u \in Users :
        /\ UpdateProject(id, patch, u)
        /\ Served(Event("project-updated", RoomOf(id), u))

DoDeleteProject ==
    \E id \in ProjectIds, u \in Users :
        /\ DeleteProject(id, u)
        /\ Served(Event("project-deleted", Everyone, u))

DoGetProjectTasks ==
    \E id \in ProjectIds, u \in Users, st \in ListStatusArgs :
        GetProjectTasks(id, u, st) /\ Answered

\* POST /api/tasks/project/:projectId with a body that gives a title only
DoCreateTaskInProject ==
    \E p \in ProjectIds, u \in Users :
        /\ CreateTask(p, u, Absent, Absent, <<>>)
        /\ Served(Event("task-created", RoomOf(p), u))

NextManage ==
    \/ DoUpdateProject
    \/ DoDeleteProject
    \/ DoRemoveMember
    \/ DoGetProjectTasks
    \/ DoCreateTaskInProject

SpecManage == InitTasks /\ [][NextManage]_vars

\* POST /api/tasks/:id/comments up to its second await: addComment has
\* committed, or has thrown and the catch block has answered
PostCommentCommit(t, c, u) ==
    /\ AddComment(t, c, u)
    /\ IF resp'.msg = OK
       THEN /\ pending' = pending \cup
                   {[op |-> "addComment", user |-> u, taskId |-> t,
                     commentId |-> resp'.id]}
            /\ UNCHANGED out
       ELSE /\ out' = [ok |-> FALSE, events |-> <<>>]
            /\ UNCHANGED pending
    /\ UNCHANGED <<users, sockets>>

\* the rest of the handler: getTaskById again, emit, res.status(201) -- or
\* the catch block when the re-read throws
PostCommentRespond(r) ==
    LET msg == GetTaskByIdMsg(r.taskId, r.user) IN
    /\ pending' = pending \ {r}
    /\ resp' = Reply("getTaskById", r.user, r.taskId, msg,
                     [commentId |-> r.commentId])
    /\ out' = IF msg = OK
              THEN [ok |-> TRUE,
                    events |-> <<Event("comment-added",
                                       RoomOf(tasks[r.taskId].projectId), r.user)>>]
              ELSE [ok |-> FALSE, events |-> <<>>]
    /\ UNCHANGED <<store, nextId, now, users, sockets>>

DoPostCommentCommit ==
    \E t \in TaskIds, c \in ContentArgs, u \in Users : PostCommentCommit(t, c, u)

DoPostCommentRespond == \E r \in pending : PostCommentRespond(r)

NextRealtime ==
    \/ DoPostCommentCommit
    \/ DoPostCommentRespond
    \/ DoRemoveMember
    \/ DoDeleteTask

SpecRealtime == InitComments /\ [][NextRealtime]_vars

\* the index of the write that fails
FailAtArgs == 1..5

DoCreateProjectAborted ==
    \E name \in NameArgs, d \in DescriptionArgs, tags \in TagListArgs,
       u \in Users, f \in FailAtArgs :
        /\ f <= Len(CreateProjectViaTx)
        /\ CreateProjectAborted(name, d, tags, u, f)
        /\ Served(Event("project-created", Everyone, u))

DoCreateTaskAborted ==
    \E p \in ProjectIds, u \in Users, a \in AssigneeArgs,
       tags \in TaskTagArgs, f \in FailAtArgs :
        /\ f <= Len(CreateTaskViaTx)
        /\ CreateTaskAborted(p, u, a, Absent, tags, f)
        /\ Served(Event("task-created", RoomOf(p), u))

DoUpdateProjectAborted ==
    \E id \in ProjectIds, patch \in ProjectPatches, u \in Users,
       f \in FailAtArgs :
        /\ f <= Len(UpdateProjectViaTx)
        /\ UpdateProjectAborted(id, patch, u, f)
        /\ Served(Event("project-updated", RoomOf(id), u))

\* POST /api/projects/:id/members with a body that names the email only
DoAddMemberByEmail ==
    \E id \in ProjectIds, e \in EmailArgs, u \in Users :
        /\ AddMember(id, e, Absent, u)
        /\ Served(Event("member-added", RoomOf(id), u))

NextTx ==
    \/ DoCreateProject
    \/ DoCreateTask
    \/ DoUpdateProject
    \/ DoAddMemberByEmail
    \/ DoCreateProjectAborted
    \/ DoCreateTaskAborted
    \/ DoUpdateProjectAborted

SpecTx == Init /\ [][NextTx]_vars

NextLanes ==
    \/ DoCreateTask
    \/ DoUpdateTask

SpecLanes == InitTasks /\ [][NextLanes]_vars

NextWatch ==
    \/ DoCreateTask
    \/ DoUpdateTask
    \/ DoAddComment

SpecWatch == InitTasks /\ [][NextWatch]_vars

\* A store like that of InitComments in which task 1 has been set to Done at
\* clock reading -1.
InitStatus ==
    /\ projects = (1 :> [name |-> <<"S", "P">>, description |-> NoText,
                         status |-> "ACTIVE", ownerId |-> "u1", updatedAt |-> -5])
               @@ (2 :> [name |-> <<"S", "P">>, description |-> NoText,
                         status |-> "ACTIVE", ownerId |-> "u3", updatedAt |-> -3])
    /\ projectMembers = {[userId |-> "u1", projectId |-> 1, role |-> "OWNER"],
                         [userId |-> "u2", projectId |-> 1, role |-> "MEMBER"],
                         [userId |-> "u3", projectId |-> 2, role |-> "OWNER"]}
    /\ projectColumns = DefaultColumnRows(1) \cup DefaultColumnRows(2)
    /\ projectTags = {}
    /\ tasks = (1 :> [projectId |-> 1, creatorId |-> "u2",
                      assigneeId |-> NULL, status |-> "Done",
                      completedDate |-> DateOf(-1), position |-> 0,
                      createdAt |-> -2])
            @@ (2 :> [projectId |-> 2, creatorId |-> "u3",
                      assigneeId |-> NULL, status |-> "To Do",
                      completedDate |-> NullDate, position |-> 0,
                      createdAt |-> -1])
    /\ taskWatchers = {[userId |-> "u2", taskId |-> 1],
                       [userId |-> "u3", taskId |-> 2]}
    /\ taskTags = {}
    /\ comments = <<>>
    /\ nextId = [project |-> 3, task |-> 3, comment |-> 1]
    /\ now = 0
    /\ resp = Reply("none", NULL, 0, OK, NoData)
    /\ users = AllActive
    /\ out = Quiet
    /\ pending = {}
    /\ sockets = NoSockets

\* what a PUT /api/tasks/:id body can carry as status: nothing, the empty
\* string, or a column name
StatusPatchArgs == {Absent, "", "Done", "Completed", "In Progress"}

\* PUT /api/tasks/:id with a body that names no assignee
DoSetStatus ==
    \E t \in TaskIds, st \in StatusPatchArgs, u \in Users :
        /\ UpdateTask(t, [status |-> st, assigneeId |-> Absent], u)
        /\ Served(Event("task-updated", RoomOf(tasks'[t].projectId), u))

NextStatus ==
    \/ DoSetStatus
    \/ DoAddMemberByEmail

SpecStatus == InitStatus /\ [][NextStatus]_vars

\* the answer of a read, with the request that was made
AnsweredRequest(request) ==
    /\ out' = [ok |-> resp'.msg = OK, events |-> <<>>, request |-> request]
    /\ UNCHANGED <<users, pending, sockets>>

ReadProject ==
    \E id \in ProjectIds, u \in Users :
        /\ GetProjectById(id, u)
        /\ AnsweredRequest(<<"GET /api/projects/:id", id, u>>)

ReadUserProjects ==
    \E u \in Users, st \in StatusFilterArgs, l \in LimitArgs :
        /\ GetUserProjects(u, st, <<>>, 1, l)
        /\ AnsweredRequest(<<"GET /api/projects", u, st, l>>)

ReadProjectTasks ==
    \E id \in ProjectIds, u \in Users, st \in ListStatusArgs :
        /\ GetProjectTasks(id, u, st)
        /\ AnsweredRequest(<<"GET /api/tasks/project/:projectId", id, u, st>>)

ReadTask ==
    \E t \in TaskIds, u \in Users :
        /\ GetTaskById(t, u)
        /\ AnsweredRequest(<<"GET /api/tasks/:id", t, u>>)

NextReads ==
    \/ DoAddComment
    \/ ReadProject
    \/ ReadUserProjects
    \/ ReadProjectTasks
    \/ ReadTask

SpecReads == InitComments /\ [][NextReads]_vars

\* the answer of PUT /api/projects/:id, with the body that was sent
DoPutProject ==
    \E id \in ProjectIds, patch \in ProjectPatches, u \in Users :
        /\ UpdateProject(id, patch, u)
        /\ out' = [ok |-> resp'.msg = OK,
                   events |-> IF resp'.msg = OK
                              THEN <<Event("project-updated", RoomOf(id), u)>>
                              ELSE <<>>,
                   request |-> patch]
        /\ UNCHANGED <<users, pending, sockets>>

\* POST /api/tasks/project/:projectId with a body that gives a title and tags
DoCreateTaggedTask ==
    \E p \in ProjectIds, u \in Users, tags \in TaskTagArgs :
        /\ CreateTask(p, u, Absent, Absent, tags)
        /\ Served(Event("task-created", RoomOf(p), u))

NextReplace ==
    \/ DoPutProject
    \/ DoCreateTaggedTask

SpecReplace == InitTasks /\ [][NextReplace]_vars

-----------------------------------------------------------------------------
(* addMember as two steps: the checks, then the insert *)

\* what projectMember.create throws when the (userId, projectId) pair exists
ErrUniqueMember == "Unique constraint failed on the fields: (userId, projectId)"

\* POST /api/projects/:id/members: the transport status for a thrown message
AddMemberRouteStatus(msg) ==
    IF msg = OK THEN 200
    ELSE IF msg \in {ErrUserNotFound, ErrAlreadyMember, ErrAddPerm} THEN 400
    ELSE 500

\* addMember up to projectMember.create: the request waits with the user it
\* found when every check passed, and is answered at once when one failed
AddMemberChecks(projectId, email, role, userId) ==
    LET msg == AddMemberMsg(projectId, email, userId) IN
    /\ IF msg = OK
       THEN /\ pending' = pending \cup
                   {[op |-> "addMember", user |-> userId, projectId |-> projectId,
                     email |-> email, role |-> role,
                     found |-> CHOOSE x \in Users : EmailOf(x) = ToLowerCase(email)]}
            /\ UNCHANGED <<resp, out>>
       ELSE /\ resp' = Reply("addMember", userId, projectId, msg,
                             [email |-> email, role |-> role])
            /\ out' = [ok |-> FALSE, events |-> <<>>,
                       status |-> AddMemberRouteStatus(msg)]
            /\ UNCHANGED pending
    /\ UNCHANGED <<store, nextId, now, users, sockets>>

\* projectMember.create and the rest of the handler, for a waiting request
AddMemberCreate(r) ==
    LET msg == IF isProjectMember(r.projectId, r.found) THEN ErrUniqueMember
               ELSE OK
    IN
    /\ pending' = pending \ {r}
    /\ IF msg = OK
       THEN /\ now < MaxClock
            /\ projectMembers' = projectMembers \cup
                  {[userId |-> r.found, projectId |-> r.projectId,
                    role |-> ToUpperCase(IF r.role = Absent THEN "MEMBER"
                                         ELSE r.role)]}
            /\ now' = now + 1
       ELSE UNCHANGED <<projectMembers, now>>
    /\ resp' = Reply("addMember", r.user, r.projectId, msg,
                     [email |-> r.email, role |-> r.role])
    /\ out' = [ok |-> msg = OK,
               events |-> IF msg = OK
                          THEN <<Event("member-added", RoomOf(r.projectId), r.user)>>
                          ELSE <<>>,
               status |-> AddMemberRouteStatus(msg)]
    /\ UNCHANGED <<projects, projectColumns, projectTags, tasks, taskWatchers,
                   taskTags, comments, nextId, users, sockets>>

DoAddMemberChecks ==
    \E id \in ProjectIds, e \in EmailArgs, r \in RoleArgs, u \in Users :
        AddMemberChecks(id, e, r, u)

DoAddMemberCreate == \E r \in pending : AddMemberCreate(r)

NextJoin ==
    \/ DoAddMemberChecks
    \/ DoAddMemberCreate

SpecJoin == InitTasks /\ [][NextJoin]_vars

-----------------------------------------------------------------------------
(* createTask as two steps: the lookups, then the transaction *)

\* createTask up to prisma.$transaction: the request waits with the position
\* it computed when the checks passed, and is answered at once when one failed
CreateTaskLookup(projectId, creatorId, status) ==
    LET msg == CreateTaskMsg(projectId, creatorId, Absent)
        st == IF status = Absent THEN "To Do" ELSE status
    IN
    /\ IF msg = OK
       THEN /\ Cardinality(pending) < MaxInFlight
            /\ pending' = pending \cup
                   {[op |-> "createTask", user |-> creatorId,
                     projectId |-> projectId, status |-> st,
                     position |-> NextPosition(projectId, st)]}
            /\ UNCHANGED <<resp, out>>
       ELSE /\ resp' = Reply("createTask", creatorId, 0, msg,
                             [projectId |-> projectId, assigneeId |-> Absent])
            /\ out' = [ok |-> FALSE, events |-> <<>>]
            /\ UNCHANGED pending
    /\ UNCHANGED <<store, nextId, now, users, sockets>>

\* the transaction of a waiting createTask, and the rest of its handler
CreateTaskInsert(r) ==
    LET tid == nextId.task IN
    /\ tid <= MaxTasks
    /\ now < MaxClock
    /\ pending' = pending \ {r}
    /\ tasks' = (tid :> [projectId |-> r.projectId, creatorId |-> r.user,
                         assigneeId |-> NULL, status |-> r.status,
                         completedDate |-> NullDate, position |-> r.position,
                         createdAt |-> now]) @@ tasks
    /\ taskWatchers' = taskWatchers \cup {[userId |-> r.user, taskId |-> tid]}
    /\ nextId' = [nextId EXCEPT !.task = tid + 1]
    /\ now' = now + 1
    /\ resp' = Reply("createTask", r.user, tid, OK,
                     [projectId |-> r.projectId, assigneeId |-> Absent])
    /\ out' = [ok |-> TRUE,
               events |-> <<Event("task-created", RoomOf(r.projectId), r.user)>>]
    /\ UNCHANGED <<projects, projectMembers, projectColumns, projectTags,
                   taskTags, comments, users, sockets>>

\* the bodies give a title only, so every new task goes to the 'To Do' lane
DoCreateTaskLookup ==
    \E p \in ProjectIds, u \in Users : CreateTaskLookup(p, u, Absent)

DoCreateTaskInsert == \E r \in pending : CreateTaskInsert(r)

NextRace ==
    \/ DoCreateTaskLookup
    \/ DoCreateTaskInsert
    \/ DoGetProjectTasks

SpecRace == InitTasks /\ [][NextRace]_vars

-----------------------------------------------------------------------------
(* The routes with sockets connected *)

DoConnect == \E s \in Sessions : Connect(s)

\* the clients ask for the rooms of the projects they show
DoJoinProject ==
    \E s \in Sessions, p \in DOMAIN projects : JoinProject(s, p)

DoLeaveProject ==
    \E s \in Sessions, p \in DOMAIN projects : LeaveProject(s, p)

DoDisconnect == \E s \in Sessions : Disconnect(s)

\* the three relays have one body; the clients here send 'task-updated'
DoRelay ==
    \E s \in Sessions, p \in DOMAIN projects : Relay(s, "task-updated", p)

\* PUT /api/tasks/:id by the owner of project 1, with a body that marks the
\* task done
DoSetStatusLive ==
    \E t \in TaskIds :
        /\ UpdateTask(t, [status |-> "Done", assigneeId |-> Absent], "u1")
        /\ ServedLive(Event("task-updated", RoomOf(tasks'[t].projectId), "u1"))

\* DELETE /api/projects/1/members/:userId by the owner of project 1
DoRemoveMemberLive ==
    \E m \in Users :
        /\ RemoveMember(1, m, "u1")
        /\ ServedLive(Event("member-removed", RoomOf(1), "u1"))

NextSockets ==
    \/ DoConnect
    \/ DoJoinProject
    \/ DoLeaveProject
    \/ DoDisconnect
    \/ DoRelay
    \/ DoSetStatusLive
    \/ DoRemoveMemberLive

SpecSockets == InitComments /\ [][NextSockets]_vars

NextComments ==
    \/ DoAddComment
    \/ DoUpdateComment
    \/ DoDeleteComment
    \/ DoRemoveMember

SpecComments == InitComments /\ [][NextComments]_vars

-----------------------------------------------------------------------------
(* Authentication in front of the project, task and user routers *)

ErrTokenRequired == "Access token is required"
ErrInvalidToken == "Invalid token"
ErrTokenExpired == "Token expired"
ErrTokenUserNotFound == "Invalid token - user not found"
ErrDeactivated == "Account is deactivated"

\* A user id for which no row exists in the user table.
GhostUser == "u9"

\* What a request carries in its authorization header: nothing, a string
\* that is not a token, a token signed with another secret, or a token signed
\* by generateToken for userId, past its expiry or not.
Token(kind, userId, expired) ==
    [kind |-> kind, userId |-> userId, expired |-> expired]

TokenArgs ==
    {Token("none", NULL, FALSE), Token("malformed", NULL, FALSE)}
    \cup {Token(k, u, e) : k \in {"forged", "jwt"},
                           u \in Users \cup {GhostUser}, e \in BOOLEAN}

\* jwt.verify: the signature is checked before the expiry
jwtVerify(token) ==
    IF token.kind \in {"malformed", "forged"} THEN "JsonWebTokenError"
    ELSE IF token.expired THEN "TokenExpiredError"
    ELSE OK

\* userService.findById
findById(id) == IF id \in DOMAIN users THEN <<users[id]>> ELSE <<>>

AuthenticateTokenMsgNoActiveCheck(token) ==
    IF token.kind = "none" THEN ErrTokenRequired
    ELSE IF jwtVerify(token) = "JsonWebTokenError" THEN ErrInvalidToken
    ELSE IF jwtVerify(token) = "TokenExpiredError" THEN ErrTokenExpired
    ELSE IF findById(token.userId) = <<>> THEN ErrTokenUserNotFound
    ELSE OK

\* authenticateToken: OK when next() is called, else the message of the 401
AuthenticateTokenMsg(token) ==
    IF token.kind = "none" THEN ErrTokenRequired
    ELSE IF jwtVerify(token) = "JsonWebTokenError" THEN ErrInvalidToken
    ELSE IF jwtVerify(token) = "TokenExpiredError" THEN ErrTokenExpired
    ELSE IF findById(token.userId) = <<>> THEN ErrTokenUserNotFound
    ELSE IF ~findById(token.userId)[1].isActive THEN ErrDeactivated
    ELSE OK

\* the answer of a request that came with token
AnsweredTo(token) ==
    out' = [ok |-> resp'.msg = OK, events |-> <<>>, token |-> token]

\* authenticateToken answers 401 itself and no router is entered
Rejected(token) ==
    /\ AuthenticateTokenMsg(token) # OK
    /\ resp' = Reply("authenticateToken", NULL, 0, AuthenticateTokenMsg(token),
                     NoData)
    /\ AnsweredTo(token)
    /\ UNCHANGED <<store, nextId, now, users, pending, sockets>>

\* userService.deactivateUser
DeactivateUser(id) ==
    /\ users' = [users EXCEPT ![id].isActive = FALSE]
    /\ resp' = Reply("deactivateUser", id, 0, OK, NoData)
    /\ UNCHANGED <<store, nextId, now>>

\* GET /api/projects/:id behind authenticateToken
AuthGetProjectById(token, id) ==
    /\ AuthenticateTokenMsg(token) = OK
    /\ GetProjectById(id, token.userId)
    /\ AnsweredTo(token)
    /\ UNCHANGED <<users, pending, sockets>>

\* GET /api/tasks/project/:projectId behind authenticateToken
AuthGetProjectTasks(token, projectId, status) ==
    /\ AuthenticateTokenMsg(token) = OK
    /\ GetProjectTasks(projectId, token.userId, status)
    /\ AnsweredTo(token)
    /\ UNCHANGED <<users, pending, sockets>>

\* POST /api/users/me/deactivate behind authenticateToken
AuthDeactivate(token) ==
    /\ AuthenticateTokenMsg(token) = OK
    /\ DeactivateUser(token.userId)
    /\ AnsweredTo(token)
    /\ UNCHANGED <<pending, sockets>>

DoRejected == \E token \in TokenArgs : Rejected(token)

DoAuthGetProjectById ==
    \E token \in TokenArgs, id \in ProjectIds : AuthGetProjectById(token, id)

DoAuthGetProjectTasks ==
    \E token \in TokenArgs, p \in ProjectIds, st \in ListStatusArgs :
        AuthGetProjectTasks(token, p, st)

DoAuthDeactivate == \E token \in TokenArgs : AuthDeactivate(token)

NextAuth ==
    \/ DoRejected
    \/ DoAuthGetProjectById
    \/ DoAuthGetProjectTasks
    \/ DoAuthDeactivate

SpecAuth == InitTasks /\ [][NextAuth]_vars

Next ==
    \/ DoCreateProject
    \/ DoGetUserProjects
    \/ DoGetProjectById
    \/ DoAddMember
    \/ DoRemoveMember
    \/ DoCreateTask
    \/ DoUpdateTask
    \/ DoDeleteTask
    \/ DoAddComment
    \/ DoUpdateComment
    \/ DoDeleteComment

Spec == Init /\ [][Next]_vars

-----------------------------------------------------------------------------
(* Project membership properties, checked under SpecProjects *)

OwnerRows(p) == {m \in projectMembers : m.projectId = p /\ m.role = "OWNER"}

\* C1: every existing project has exactly one ProjectMember row with role
\* OWNER, and that row's user is the project's ownerId.
C1_ExactlyOneOwner ==
    \A p \in DOMAIN projects :
        /\ Cardinality(OwnerRows(p)) = 1
        /\ \A m \in OwnerRows(p) : m.userId = projects[p].ownerId

\* C2: every project returned by getUserProjects is one of which the calling
\* user is the owner or a member, whatever the filters.
C2_OnlyOwnProjects ==
    resp.op = "getUserProjects" =>
        \A i \in 1..Len(resp.data.projects) :
            OwnerOrMember(resp.data.projects[i], resp.user)

Inaccessible(id, u) == id \notin DOMAIN projects \/ ~OwnerOrMember(id, u)

\* C5: getProjectById answers a caller without access with one and the same
\* message and transport status whether the project id does not exist or the
\* project exists and the caller is neither owner nor member.
C5_Indistinguishable ==
    /\ (resp.op = "getProjectById" /\ Inaccessible(resp.id, resp.user)) =>
          /\ resp.msg = ErrProjectNotFound
          /\ GetProjectRouteStatus(resp.msg) = 404
    /\ \A u \in Users, a \in ProjectIds, b \in ProjectIds :
          (a \notin DOMAIN projects /\ b \in DOMAIN projects
              /\ ~OwnerOrMember(b, u)) =>
             /\ GetProjectByIdMsg(a, u) = GetProjectByIdMsg(b, u)
             /\ GetProjectByIdMsg(a, u) # OK

\* a denied getProjectById on an existing project, while another id is unused
C5_Witness ==
    /\ resp.op = "getProjectById"
    /\ resp.id \in DOMAIN projects
    /\ ~OwnerOrMember(resp.id, resp.user)
    /\ resp.msg = ErrProjectNotFound
    /\ \E a \in ProjectIds : a \notin DOMAIN projects

RemovedOwner ==
    /\ resp.op = "removeMember"
    /\ resp.id \in DOMAIN projects
    /\ resp.data.memberUserId = projects[resp.id].ownerId

\* C6 (as claimed): removeMember naming the project's owner fails with
\* 'Cannot remove project owner' for every caller.
C6_AlwaysCannotRemoveOwner ==
    RemovedOwner => resp.msg = ErrCannotRemoveOwner

\* C6 (amended): removeMember naming the project's owner always fails and the
\* owner's membership row stays; the failure is 'Cannot remove project owner'
\* exactly when the caller holds OWNER or ADMIN, 'Insufficient permissions to
\* remove members' for any other member, and 'Project not found or access
\* denied' for a caller who is not a member.
C6_OwnerNeverRemoved ==
    RemovedOwner =>
        /\ resp.msg # OK
        /\ [userId |-> projects[resp.id].ownerId, projectId |-> resp.id,
            role |-> "OWNER"] \in projectMembers
        /\ resp.msg = ErrCannotRemoveOwner <=> IsEditor(resp.id, resp.user)
        /\ (isProjectMember(resp.id, resp.user) /\ ~IsEditor(resp.id, resp.user))
              => resp.msg = ErrRemovePerm
        /\ ~isProjectMember(resp.id, resp.user) => resp.msg = ErrProjectNotFound

\* an ADMIN was refused the removal of the owner
C6_Witness ==
    /\ RemovedOwner
    /\ getUserRole(resp.id, resp.user) = "ADMIN"
    /\ resp.msg = ErrCannotRemoveOwner

-----------------------------------------------------------------------------
(* Task properties, checked under SpecTasks *)

HasRole(p, u, r) == [userId |-> u, projectId |-> p, role |-> r] \in projectMembers
HasAnyRole(p, u) == \E m \in projectMembers : m.projectId = p /\ m.userId = u

\* C3: after every updateTask call the task's completedDate is non-null if
\* and only if its status is Done or Completed.
C3_CompletedIffTerminal ==
    (resp.op = "updateTask" /\ resp.msg = OK) =>
        (tasks[resp.id].completedDate # NullDate
            <=> tasks[resp.id].status \in {"Done", "Completed"})

\* C4: whenever createTask or updateTask sets a task's assignee, that user
\* is a member of the task's project at that moment, and a createTask naming
\* a non-member assignee fails with 'Assignee must be a project member'.
C4_AssigneeIsMember ==
    /\ (resp.op \in {"createTask", "updateTask"} /\ resp.msg = OK
           /\ resp.data.assigneeId # Absent) =>
          HasAnyRole(tasks[resp.id].projectId, resp.data.assigneeId)
    /\ (resp.op = "createTask" /\ HasAnyRole(resp.data.projectId, resp.user)
           /\ resp.data.assigneeId # Absent
           /\ ~HasAnyRole(resp.data.projectId, resp.data.assigneeId)) =>
          resp.msg = ErrInvalidAssignee

MayEdit(t, u) ==
    \/ tasks[t].creatorId = u
    \/ tasks[t].assigneeId = u
    \/ HasRole(tasks[t].projectId, u, "OWNER")
    \/ HasRole(tasks[t].projectId, u, "ADMIN")

\* C7 (as claimed): updateTask is refused only to a caller who is neither the
\* task's creator, nor its assignee, nor OWNER or ADMIN of its project, and
\* then with 'Insufficient permissions to edit this task'.
C7_AllowedForCreatorAssigneeEditor ==
    (resp.op = "updateTask" /\ resp.id \in DOMAIN tasks /\ resp.msg # OK) =>
        /\ ~MayEdit(resp.id, resp.user)
        /\ resp.msg = ErrEditTaskPerm

\* C7 (amended): for a caller who is a member of the task's project,
\* updateTask succeeds exactly when the caller is the task's creator, its
\* current assignee, or OWNER or ADMIN of the project, and otherwise fails
\* with 'Insufficient permissions to edit this task'; a caller who is not a
\* member of the project fails with 'Access denied - not a project member',
\* creator and assignee included; a refused call changes nothing stored.
C7_MemberEditRule ==
    [][(resp'.op = "updateTask" /\ resp'.id \in DOMAIN tasks) =>
          LET t == resp'.id
              u == resp'.user
          IN /\ resp'.msg # OK => UNCHANGED store
             /\ IF HasAnyRole(tasks[t].projectId, u)
                THEN /\ resp'.msg = OK <=> MayEdit(t, u)
                     /\ ~MayEdit(t, u) => resp'.msg = ErrEditTaskPerm
                ELSE resp'.msg = ErrNotMember]_vars

\* a MEMBER who did not create the task has updated it, as its assignee
C7_Witness ==
    /\ resp.op = "updateTask"
    /\ resp.msg = OK
    /\ tasks[resp.id].creatorId # resp.user
    /\ HasRole(tasks[resp.id].projectId, resp.user, "MEMBER")

AssigneeOnlyMember(t, u) ==
    /\ tasks[t].assigneeId = u
    /\ tasks[t].creatorId # u
    /\ HasRole(tasks[t].projectId, u, "MEMBER")

\* C8: deleteTask succeeds only for the task's creator or an OWNER or ADMIN
\* of its project; a caller who is only the assignee, with role MEMBER, can
\* update the task but is refused the delete, and a refused delete leaves the
\* task stored.
C8_DeleteNarrowerThanUpdate ==
    [][/\ (resp'.op = "deleteTask" /\ resp'.id \in DOMAIN tasks) =>
             LET t == resp'.id
                 u == resp'.user
             IN /\ resp'.msg = OK =>
                      \/ tasks[t].creatorId = u
                      \/ HasRole(tasks[t].projectId, u, "OWNER")
                      \/ HasRole(tasks[t].projectId, u, "ADMIN")
                /\ resp'.msg # OK => tasks' = tasks
                /\ AssigneeOnlyMember(t, u) => resp'.msg = ErrDeleteTaskPerm
       /\ (resp'.op = "updateTask" /\ resp'.id \in DOMAIN tasks
              /\ AssigneeOnlyMember(resp'.id, resp'.user)) => resp'.msg = OK]_vars

\* a MEMBER who is only the task's assignee was refused its deletion
C8_Witness ==
    /\ resp.op = "deleteTask"
    /\ resp.id \in DOMAIN tasks
    /\ AssigneeOnlyMember(resp.id, resp.user)
    /\ resp.msg = ErrDeleteTaskPerm

-----------------------------------------------------------------------------
(* Comment properties, checked under SpecComments *)

CommentProject(c) == tasks[comments[c].taskId].projectId

\* C9: deleteComment removes a comment only for its author or for an OWNER
\* or ADMIN of the comment's project, and a refused call leaves the comment.
C9_DeleteByAuthorOrEditor ==
    [][(resp'.op = "deleteComment" /\ resp'.id \in DOMAIN comments) =>
          LET c == resp'.id
              u == resp'.user
          IN /\ resp'.msg = OK =>
                   \/ comments[c].authorId = u
                   \/ HasRole(CommentProject(c), u, "OWNER")
                   \/ HasRole(CommentProject(c), u, "ADMIN")
             /\ resp'.msg # OK => comments' = comments]_vars

\* C10: a comment's content and edited flag change only through an
\* updateComment call by the comment's author, which stores the new content
\* and sets the edited flag; for any other caller updateComment fails and
\* changes no comment.
C10_OnlyAuthorEdits ==
    [][/\ \A c \in DOMAIN comments \cap DOMAIN comments' :
             (comments'[c].content # comments[c].content
                 \/ comments'[c].isEdited # comments[c].isEdited) =>
                /\ resp'.op = "updateComment"
                /\ resp'.id = c
                /\ resp'.user = comments[c].authorId
       /\ (resp'.op = "updateComment" /\ resp'.id \in DOMAIN comments) =>
             IF resp'.msg = OK
             THEN /\ comments[resp'.id].authorId = resp'.user
                  /\ comments'[resp'.id].content = resp'.data.content
                  /\ comments'[resp'.id].isEdited
             ELSE comments' = comments
       /\ (resp'.op = "updateComment" /\ resp'.id \in DOMAIN comments
              /\ comments[resp'.id].authorId # resp'.user) =>
             /\ resp'.msg # OK
             /\ comments' = comments]_vars

\* the OWNER of the comment's project, not its author, was refused the edit
C10_Witness ==
    /\ resp.op = "updateComment"
    /\ resp.id \in DOMAIN comments
    /\ comments[resp.id].authorId # resp.user
    /\ HasRole(CommentProject(resp.id), resp.user, "OWNER")
    /\ resp.msg = ErrEditCommentPerm
    /\ ~comments[resp.id].isEdited

-----------------------------------------------------------------------------
(* Project management properties, checked under SpecManage *)

\* C11: a user whose role on a project is MEMBER lists its tasks and creates
\* tasks in it, while every updateProject and removeMember call of that user
\* fails for lack of permission and changes no project field, column, tag or
\* membership.
C11_MemberCannotManage ==
    [][/\ (resp'.op = "updateProject" /\ HasRole(resp'.id, resp'.user, "MEMBER")) =>
             /\ resp'.msg = ErrUpdateProjectPerm
             /\ UNCHANGED <<projects, projectColumns, projectTags, projectMembers>>
       /\ (resp'.op = "removeMember" /\ HasRole(resp'.id, resp'.user, "MEMBER")) =>
             /\ resp'.msg = ErrRemovePerm
             /\ UNCHANGED <<projects, projectColumns, projectTags, projectMembers>>
       /\ (resp'.op = "getProjectTasks"
              /\ HasRole(resp'.id, resp'.user, "MEMBER")) =>
             /\ resp'.msg = OK
             /\ SeqToSet(resp'.data.tasks) \subseteq TasksOfProject(resp'.id)
       /\ (resp'.op = "createTask"
              /\ HasRole(resp'.data.projectId, resp'.user, "MEMBER")
              /\ (resp'.data.assigneeId = Absent
                    \/ HasAnyRole(resp'.data.projectId, resp'.data.assigneeId))) =>
             /\ resp'.msg = OK
             /\ tasks'[resp'.id].projectId = resp'.data.projectId]_vars

\* a MEMBER who has created a task in the project was refused its update
C11_Witness ==
    /\ resp.op = "updateProject"
    /\ HasRole(resp.id, resp.user, "MEMBER")
    /\ resp.msg = ErrUpdateProjectPerm
    /\ \E t \in DOMAIN tasks :
          tasks[t].creatorId = resp.user /\ tasks[t].projectId = resp.id

-----------------------------------------------------------------------------
(* Membership changes, checked under SpecProjects *)

\* the users whose email equals the given one when case is ignored
KnownByEmail(email) ==
    {u \in Users : ToLowerCase(EmailOf(u)) = ToLowerCase(email)}

\* C13: addMember called by an OWNER or ADMIN fails with 'User not found'
\* when no user has the email, case ignored, and with 'User is already a
\* member of this project' when that user has a membership row, leaving the
\* membership table as it was; otherwise it inserts exactly one row, for that
\* user, with the requested role, MEMBER when none is given.
C13_AddMemberOutcome ==
    [][(resp'.op = "addMember" /\ resp'.id \in DOMAIN projects
          /\ (HasRole(resp'.id, resp'.user, "OWNER")
                \/ HasRole(resp'.id, resp'.user, "ADMIN"))) =>
          LET p == resp'.id
              known == KnownByEmail(resp'.data.email)
              role == IF resp'.data.role = Absent THEN "MEMBER"
                      ELSE ToUpperCase(resp'.data.role)
          IN IF known = {}
             THEN resp'.msg = ErrUserNotFound /\ UNCHANGED projectMembers
             ELSE IF \E u \in known : HasAnyRole(p, u)
             THEN resp'.msg = ErrAlreadyMember /\ UNCHANGED projectMembers
             ELSE /\ resp'.msg = OK
                  /\ \E u \in known :
                        /\ projectMembers' = projectMembers \cup
                              {[userId |-> u, projectId |-> p, role |-> role]}
                        /\ Cardinality(projectMembers')
                              = Cardinality(projectMembers) + 1]_vars

\* u2 was added under an email written in capitals, with no role given
C13_Witness ==
    /\ resp.op = "addMember"
    /\ resp.msg = OK
    /\ resp.data.email = "U2@X.com"
    /\ resp.data.role = Absent
    /\ HasRole(resp.id, "u2", "MEMBER")

-----------------------------------------------------------------------------
(* Atomicity, checked under SpecTx *)

\* C14: when a write inside createProject, createTask or updateProject
\* fails, none of the writes the call made before it is in the store.
C14_AllOrNothing ==
    [][resp'.msg = ErrWriteFailed => UNCHANGED store]_vars

\* createTask failed at its last write, after the task row and both watcher
\* rows had been written
C14_Witness ==
    /\ resp.op = "createTask"
    /\ resp.msg = ErrWriteFailed
    /\ resp.data.failAt = 4
    /\ projects # <<>>

-----------------------------------------------------------------------------
(* Realtime events, checked under SpecComments *)

MutatingOps ==
    {"createProject", "updateProject", "deleteProject", "addMember",
     "removeMember", "createTask", "updateTask", "deleteTask", "addComment",
     "updateComment", "deleteComment"}

\* the project whose data the request that is answered in this step changed;
\* 0 stands for a project that is being created or deleted
AffectedProject ==
    CASE resp'.op \in {"updateComment", "deleteComment"} -> CommentProject(resp'.id)
      [] resp'.op = "addComment" -> tasks[resp'.data.taskId].projectId
      [] resp'.op \in {"updateTask", "deleteTask"} -> tasks[resp'.id].projectId
      [] resp'.op = "createTask" -> resp'.data.projectId
      [] resp'.op \in {"createProject", "deleteProject"} -> 0
      [] OTHER -> resp'.id

\* C15: a request whose mutation succeeds emits exactly one event, to the
\* room of the project it changed (to everyone for project creation and
\* deletion), and a request whose mutation fails emits none.
C15_OneEventToAffectedRoom ==
    [][resp'.op \in MutatingOps =>
          IF resp'.msg = OK
          THEN /\ Len(out'.events) = 1
               /\ out'.events[1].room = AffectedProject
               /\ out'.events[1].by = resp'.user
          ELSE out'.events = <<>>]_vars

-----------------------------------------------------------------------------
(* Emission after commit, checked under SpecRealtime *)

\* C16: once addComment has committed, whatever happens while the event is
\* being built and emitted, the request is answered as successful and the
\* comment it wrote is not taken back by its handler.
C16_CommittedIsReportedSuccessful ==
    [][\A r \in pending \ pending' :
          /\ out'.ok
          /\ comments' = comments]_vars

-----------------------------------------------------------------------------
(* The authentication gate, checked under SpecAuth *)

\* a token the server signed for an existing user and that has not expired
ValidCredential(t) ==
    /\ t.kind = "jwt"
    /\ ~t.expired
    /\ t.userId \in DOMAIN users

UnauthorizedMsgs ==
    {ErrTokenRequired, ErrInvalidToken, ErrTokenExpired, ErrTokenUserNotFound}

\* C17: a request whose credential is missing, malformed, expired or invalid
\* is answered Unauthorized, and one whose credential resolves to a user whose
\* active flag is false is answered AccountDeactivated; in both cases no
\* handler runs and nothing is changed, so a deactivated user's earlier,
\* unexpired token is refused on every later request.
C17_GateBeforeHandlers ==
    [][LET t == out'.token IN
         ~(ValidCredential(t) /\ users[t.userId].isActive) =>
            /\ resp'.op = "authenticateToken"
            /\ IF ValidCredential(t) THEN resp'.msg = ErrDeactivated
               ELSE resp'.msg \in UnauthorizedMsgs
            /\ ~out'.ok
            /\ store' = store
            /\ users' = users]_vars

\* A user who was deactivated sends the unexpired token issued earlier and is
\* refused.
C17_Witness ==
    /\ resp.op = "authenticateToken"
    /\ resp.msg = ErrDeactivated
    /\ out.token.kind = "jwt"
    /\ ~out.token.expired
    /\ ~users[out.token.userId].isActive
    /\ \E u \in Users : users[u].isActive

-----------------------------------------------------------------------------
(* Values returned by project mutations *)

\* C18: the project value createProject returns, which the route also
\* broadcasts in project-created, lists the owner's OWNER membership and its
\* members are those of the committed store.
C18_CreatedProjectIsHydrated ==
    (resp.op = "createProject" /\ resp.msg = OK) =>
        /\ [userId |-> resp.user, projectId |-> resp.id, role |-> "OWNER"]
              \in resp.data.members
        /\ resp.data.members = {m \in projectMembers : m.projectId = resp.id}

\* C19: the project value updateProject returns, which the route also
\* broadcasts in project-updated, carries the columns and tags as stored
\* after the call.
C19_UpdatedProjectIsCurrent ==
    (resp.op = "updateProject" /\ resp.msg = OK) =>
        /\ resp.data.columns =
              OrderByOrderAsc({c \in projectColumns : c.projectId = resp.id})
        /\ resp.data.tags = {t \in projectTags : t.projectId = resp.id}

\* C20: getProjectById by the owner of a project that was created and never
\* updated returns exactly the four default columns, in order: To Do (0),
\* In Progress (1), Review (2), Done (3), each with its colour.
C20_DefaultColumnsRoundTrip ==
    (/\ resp.op = "getProjectById"
     /\ resp.msg = OK
     /\ resp.user = projects[resp.id].ownerId) =>
        resp.data.columns =
            << [projectId |-> resp.id, name |-> "To Do", order |-> 0,
                color |-> "#EF4444"],
               [projectId |-> resp.id, name |-> "In Progress", order |-> 1,
                color |-> "#F59E0B"],
               [projectId |-> resp.id, name |-> "Review", order |-> 2,
                color |-> "#8B5CF6"],
               [projectId |-> resp.id, name |-> "Done", order |-> 3,
                color |-> "#10B981"] >>

\* The owner of a created project has read it back.
C20_Witness ==
    /\ resp.op = "getProjectById"
    /\ resp.msg = OK
    /\ resp.user = projects[resp.id].ownerId
    /\ Len(resp.data.columns) = Cardinality(DefaultColumns)

-----------------------------------------------------------------------------
(* Task positions, checked under SpecLanes *)

\* the tasks of a project that are in one status column
Lane(projectId, status) ==
    {t \in DOMAIN tasks :
        tasks[t].projectId = projectId /\ tasks[t].status = status}

-----------------------------------------------------------------------------
(* Task watchers, checked under SpecWatch *)

Watches(u, t) == [userId |-> u, taskId |-> t] \in taskWatchers

WatchersCoverParticipants ==
    \A t \in DOMAIN tasks :
        /\ Watches(tasks[t].creatorId, t)
        /\ tasks[t].assigneeId # NULL => Watches(tasks[t].assigneeId, t)
        /\ \A c \in DOMAIN comments :
              comments[c].taskId = t => Watches(comments[c].authorId, t)

\* C22: after any sequence of createTask, updateTask and addComment calls
\* every task is watched by its creator, by its assignee if it has one and
\* by everyone who commented on it; a permitted updateTask or addComment never
\* fails because of the watcher row, adds at most the row of the new assignee
\* or of the author, and adds none when that user already watches the task.
C22_WatchersCoverParticipantsOnce ==
    /\ []WatchersCoverParticipants
    /\ [][/\ (resp'.op = "addComment" /\ resp'.data.taskId \in DOMAIN tasks
                 /\ HasAnyRole(tasks[resp'.data.taskId].projectId, resp'.user)) =>
                 /\ resp'.msg = OK
                 /\ taskWatchers' \ taskWatchers
                       \subseteq {[userId |-> resp'.user,
                                   taskId |-> resp'.data.taskId]}
                 /\ Watches(resp'.user, resp'.data.taskId) =>
                       taskWatchers' = taskWatchers
          /\ (resp'.op = "updateTask" /\ resp'.id \in DOMAIN tasks
                 /\ HasAnyRole(tasks[resp'.id].projectId, resp'.user)
                 /\ MayEdit(resp'.id, resp'.user)) =>
                 /\ resp'.msg = OK
                 /\ taskWatchers' \ taskWatchers
                       \subseteq {[userId |-> tasks'[resp'.id].assigneeId,
                                   taskId |-> resp'.id]}
                 /\ (tasks'[resp'.id].assigneeId # NULL
                        /\ Watches(tasks'[resp'.id].assigneeId, resp'.id)) =>
                       taskWatchers' = taskWatchers
          /\ taskWatchers \subseteq taskWatchers']_vars

\* A task was assigned to a user who already watched it as its creator, and
\* no watcher row was added.
C22_Witness ==
    /\ resp.op = "updateTask"
    /\ resp.msg = OK
    /\ tasks[resp.id].assigneeId = tasks[resp.id].creatorId
    /\ resp.user # tasks[resp.id].creatorId
    /\ Cardinality({w \in taskWatchers : w.taskId = resp.id}) = 1

-----------------------------------------------------------------------------
(* Completion dates, checked under SpecStatus *)

\* C23: a successful updateTask sets completedDate to the current time when
\* the patch's status is Done or Completed, clears it when the patch carries
\* any other status, and leaves it as it was when the patch has no status.
C23_CompletedDateFollowsStatus ==
    [][(resp'.op = "updateTask" /\ resp'.msg = OK) =>
          LET t == resp'.id
              st == resp'.data.status
          IN IF st \in {"Done", "Completed"}
             THEN tasks'[t].completedDate = DateOf(now)
             ELSE IF st # Absent
             THEN tasks'[t].completedDate = NullDate
             ELSE tasks'[t].completedDate = tasks[t].completedDate]_vars

-----------------------------------------------------------------------------
(* Reads, checked under SpecReads *)

ReadOps == {"getProjectById", "getUserProjects", "getProjectTasks", "getTaskById"}

\* C24: a read (project getById, listForUser, listForProject, task getById)
\* changes no stored row, and a read that repeats the request just answered
\* gets the same answer, comment lists included.
C24_ReadsChangeNothing ==
    [][resp'.op \in ReadOps =>
          /\ store' = store
          /\ nextId' = nextId
          /\ users' = users
          /\ (resp.op \in ReadOps /\ out.request = out'.request) => resp' = resp]_vars

\* A task with a comment has been read, by the list of its project or by id.
C24_Witness ==
    /\ resp.op \in {"getProjectTasks", "getTaskById"}
    /\ resp.msg = OK
    /\ comments # <<>>
    /\ IF resp.op = "getTaskById" THEN resp.data.comments # <<>>
       ELSE \E t \in DOMAIN resp.data.comments : resp.data.comments[t] # <<>>

-----------------------------------------------------------------------------
(* Column and tag replacement, checked under SpecReplace *)

ColumnsOf(S, id) == {c \in S : c.projectId = id}

-----------------------------------------------------------------------------
(* Overlapping addMember calls, checked under SpecJoin *)

\* C26: when two addMember calls for the same user and project have both
\* passed the membership check, one membership row results and the call that
\* inserts second is answered AlreadyMember (status 400), not Internal.
C26_LoserIsAlreadyMember ==
    /\ [](\A m1, m2 \in projectMembers :
             (m1.userId = m2.userId /\ m1.projectId = m2.projectId) => m1 = m2)
    /\ [][\A r \in pending \ pending' :
             HasAnyRole(r.projectId, r.found) =>
                /\ projectMembers' = projectMembers
                /\ resp'.msg = ErrAlreadyMember
                /\ out'.status = 400]_vars

-----------------------------------------------------------------------------
(* Overlapping createTask calls, checked under SpecRace *)

\* C27: a createTask call that has passed its checks always completes, with
\* the position it looked up, whatever other calls inserted in the meantime,
\* so two tasks of one lane can end with the same position; a listing orders
\* tasks by position, and tasks of equal position newest first.
C27_DuplicatePositionsTolerated ==
    [][/\ \A r \in pending \ pending' :
             /\ resp'.msg = OK
             /\ out'.ok
             /\ tasks'[resp'.id].position = r.position
             /\ \A o \in DOMAIN tasks : tasks'[o] = tasks[o]
       /\ (resp'.op = "getProjectTasks" /\ resp'.msg = OK) =>
             LET list == resp'.data.tasks IN
             \A i, j \in 1..Len(list) :
                i < j =>
                   \/ tasks[list[i]].position < tasks[list[j]].position
                   \/ /\ tasks[list[i]].position = tasks[list[j]].position
                      /\ tasks[list[i]].createdAt > tasks[list[j]].createdAt]_vars

\* Two tasks of one lane have the same position and have been listed, the
\* one created later first.
C27_Witness ==
    /\ resp.op = "getProjectTasks"
    /\ resp.msg = OK
    /\ Len(resp.data.tasks) = 2
    /\ LET a == resp.data.tasks[1]
           b == resp.data.tasks[2]
       IN /\ tasks[a].status = tasks[b].status
          /\ tasks[a].position = tasks[b].position
          /\ tasks[a].createdAt > tasks[b].createdAt

\* C28: an event emitted to a project's room reaches a session at most once,
\* in the step that emits it, and only when the session is connected and in
\* that room in that step; nothing reaches a session in any other step, so a
\* session that left or disconnected gets none of the later events and a
\* session that joins gets none of the earlier ones
NewMail(s) ==
    {sockets'.inbox[s][i] :
        i \in (Len(sockets.inbox[s]) + 1)..Len(sockets'.inbox[s])}

SessionUser == [s \in Sessions |-> IF s = "s1" THEN "u2" ELSE NULL]

MemberAfter(s, room) ==
    \E m \in projectMembers' :
        m.userId = SessionUser[s] /\ m.projectId = room

\* C29: a session receives an event of a project's room, and sends
\* task-updated, comment-added or project-updated into it, only when its
\* user is a member of that project
C29_RoomEventsForMembersOnly ==
    [][/\ \A s \in Sessions : \A n \in NewMail(s) :
             sockets'.emitted[n].room # Everyone
                => MemberAfter(s, sockets'.emitted[n].room)
       /\ \A s \in Sessions :
             (/\ Len(sockets'.emitted) > Len(sockets.emitted)
              /\ sockets'.emitted[Len(sockets'.emitted)].by = s)
                => MemberAfter(s, sockets'.emitted[Len(sockets'.emitted)].room)]_vars

\* C30: updateComment and deleteComment change a comment only when it
\* belongs to the task named by taskId and the caller is a member of the
\* project of the comment's task
C30_CommentOfNamedTask ==
    [][(/\ resp'.op \in {"updateComment", "deleteComment"}
        /\ resp'.msg = OK) =>
          LET c == resp'.id IN
          /\ comments[c].taskId = resp'.data.taskId
          /\ HasAnyRole(CommentProject(c), resp'.user)]_vars

====
